---- MODULE Spec2Model ----
(***************************************************************************)
(* A model of seispy/noise.py: the segmenter (cut_trace_make_statis), the  *)
(* spectral smoothing (smooth_source_spect), the spectral correlators      *)
(* (correlate, correlate_nonlinear_stack), the stackers (stacking,         *)
(* stacking_rma), the refinement of stretching, the dv/v estimators that   *)
(* end in a linear regression (dtw_dvv, mwcs_dvv, WCC_dvv, wxs_dvv),       *)
(* the dynamic-time-warping core (computeErrorFunction,                    *)
(* accumulateErrorFunction, backtrackDistanceFunction) and a caller that   *)
(* invokes the components on shared arrays.  Arrays are functions over     *)
(* 0..n-1 so that                                                          *)
(* the index arithmetic reads as in the source.  Real arithmetic is exact  *)
(* (integers and fractions); floating-point rounding is not modelled.      *)
(***************************************************************************)
EXTENDS Integers, Sequences, FiniteSets, TLC

VARIABLES
    \* ---- DTW core ----
    pc,        \* position of the DTW run
    u1,        \* trace to warp,   0..nSample-1 -> amplitude
    u0,        \* reference trace, 0..nSample-1 -> amplitude
    nSample,   \* number of samples
    lag,       \* maximum lag searched
    b,         \* strain limit
    dir,       \* accumulation direction (1 forward, -1 backward)
    err,       \* error surface,    0..nSample-1 -> 0..2*lag -> value
    d,         \* distance surface, 0..nSample-1 -> 0..2*lag -> value
    ii,        \* sample the accumulation or backtracking loop is at
    ll,        \* lag index the backtracking is at
    stbar,     \* integer shift of each sample, 0..nSample-1 -> lag
    \* ---- dv/v estimators ----
    tmin,      \* start of the measurement window, in samples
    res,       \* what the estimator returned
    epc,       \* position of the windowed or wavelet estimator
    est,       \* which estimator runs: "mwcs", "wcc" or "wxs"
    nrec,      \* len(ref), number of samples of the record
    mwl2,      \* moving_window_length, in half samples
    slide2,    \* slide_step, in half samples
    minind,    \* first sample of the next window
    maxind,    \* one past the last sample of the next window
    count,     \* number of windows measured
    delta_t,   \* delay of each window
    delta_err, \* error of each window
    delta_mcoh, \* mean coherence of each window
    time_axis, \* centre time of each window
    band,      \* <<fmin, fmax>> of para['freq']
    delta_t_m, \* wxs_dvv: delay of each time sample
    w2,        \* wxs_dvv: weight of each time sample
    \* ---- correlator ----
    cpc,       \* position of the correlate call
    Nfft,      \* length of the inverse transform
    Nfft2,     \* number of spectral points of each segment
    dt,        \* D['dt'], sample interval in time units
    maxlag,    \* D['maxlag'], in time units
    substack,  \* D['substack']
    substack_len, \* D['substack_len'], in time units
    cc_len,    \* D['cc_len'], in time units
    corr,      \* cross-spectrum of each segment, 0..nwin-1 -> 0..Nfft2-1 -> complex
    dataS_t,   \* timestamp of each segment
    handed,    \* the spectra handed to the inverse transform, in order
    corr_ampmax, \* correlate: the ampmax the outlier rule read
    s_corr,    \* the returned correlation functions
    shape,     \* s_corr.shape
    t_corr,    \* the returned timestamps
    n_corr,    \* the returned segment counts
    stack_method, \* D['stack_method'], read by correlate_nonlinear_stack
    seg_peaks, \* largest and largest absolute sample of each segment's CCF
    ns_corr,   \* correlate_nonlinear_stack: the returned companion matrix
    \* ---- stacker ----
    spc,       \* position of the stacking call
    cc_array,  \* CCF matrix, 0..nrow-1 -> 0..npts-1 -> sample
    cc_time,   \* timestamp of each row
    cc_ngood,  \* contribution count of each row
    smethod,   \* stack_para['stack_method']
    rma,       \* stack_para's rma_substack, rma_step, start_date and end_date
    ret,       \* the tuple the call returned
    \* ---- segmenter ----
    xpc,       \* position of the call of cut_trace_make_statis
    fc_para,   \* inc_hours, cc_len and step
    source,    \* the trace: its samples, sampling rate and start time
    cut,       \* what the call returned
    \* ---- source-spectrum smoothing ----
    mpc,       \* position of the call of smooth_source_spect
    cc_para,   \* cc_method and smoothspect_N
    fft1,      \* the source spectrum
    sfft1,     \* what the call returned
    \* ---- a caller of the array functions ----
    heap,      \* the arrays the caller holds, by name
    log,       \* the calls made so far: function, arrays before and after, result
    \* ---- stretching ----
    zpc,       \* position of the call of stretching
    dv_range,  \* bound of the velocity variation, a fraction
    nbtrial,   \* number of trial stretching coefficients
    cof_imax,  \* np.nanargmax(cof): the trial with the best correlation
    stretched  \* what the call returned

dtwVars == <<pc, u1, u0, nSample, lag, b, dir, err, d, ii, ll, stbar>>
dvvVars == <<tmin, res>>
estVars == <<epc, est, nrec, mwl2, slide2, minind, maxind, count,
             delta_t, delta_err, delta_mcoh, time_axis, band, delta_t_m, w2>>
corrVars == <<cpc, Nfft, Nfft2, dt, maxlag, substack, substack_len, cc_len, corr,
              dataS_t, handed, corr_ampmax, s_corr, shape, t_corr, n_corr,
              stack_method, seg_peaks, ns_corr>>
stackVars == <<spc, cc_array, cc_time, cc_ngood, smethod, rma, ret>>

segVars == <<xpc, fc_para, source, cut>>
smoothVars == <<mpc, cc_para, fft1, sfft1>>

callVars == <<heap, log>>
strVars == <<zpc, dv_range, nbtrial, cof_imax, stretched>>

vars == <<dtwVars, dvvVars, estVars, corrVars, stackVars, segVars, smoothVars, callVars, strVars>>

-----------------------------------------------------------------------------
(* Bounds of the model *)
MaxSample == 4      \* longest trace
MaxLag == 1         \* largest lag searched
MaxB == 3           \* largest strain limit
Amps == {0, 1}      \* sample amplitudes
MaxRows == 3        \* largest batch of CCF rows

-----------------------------------------------------------------------------
(* Python and numpy helpers *)

Min2(x, y) == IF x <= y THEN x ELSE y
Max2(x, y) == IF x >= y THEN x ELSE y
Min3(x, y, z) == Min2(x, Min2(y, z))

\* range(start, stop, step) as the sequence of its values
RECURSIVE PyRange(_, _, _)
PyRange(start, stop, step) ==
    IF (step > 0 /\ start >= stop) \/ (step < 0 /\ start <= stop) \/ step = 0
    THEN <<>>
    ELSE <<start>> \o PyRange(start + step, stop, step)

\* np.zeros([n, m])
Zeros2(n, m) == [i \in 0..(n - 1) |-> [l \in 0..(m - 1) |-> 0]]

\* number of entries of a 1-D array
Size(a) == Cardinality(DOMAIN a)

\* the values of an array
Values(a) == {a[i] : i \in DOMAIN a}

\* np.where(cond)[0] over 0..n-1 for the set S of indices where cond is true:
\* the indices in increasing order
WhereIn(S) ==
    [k \in 0..(Cardinality(S) - 1) |->
        CHOOSE x \in S : Cardinality({y \in S : y < x}) = k]

\* a[idx] for an index array idx
Take(a, idx) == [k \in DOMAIN idx |-> a[idx[k]]]

\* the k-th smallest value (k from 0) of a non-empty array
Kth(a, k) ==
    CHOOSE v \in Values(a) :
        /\ Cardinality({i \in DOMAIN a : a[i] < v}) <= k
        /\ k < Cardinality({i \in DOMAIN a : a[i] <= v})

\* twice np.median(a) of a non-empty array: the middle value, or the mean of the
\* two middle values
Median2(a) ==
    LET n == Size(a)
    IN  IF n % 2 = 1 THEN 2 * Kth(a, (n - 1) \div 2)
        ELSE Kth(a, n \div 2 - 1) + Kth(a, n \div 2)

\* the largest value of a non-empty array
MaxOf(a) == CHOOSE v \in Values(a) : \A w \in Values(a) : w <= v

Abs(x) == IF x < 0 THEN -x ELSE x

RECURSIVE GCD(_, _)
GCD(x, y) == IF y = 0 THEN x ELSE GCD(y, x % y)

\* the fraction n/dn (dn > 0) in lowest terms
Rat(n, dn) == LET g == GCD(Abs(n), dn) IN [num |-> n \div g, den |-> dn \div g]

RECURSIVE SumTo(_, _)
SumTo(a, k) == IF k < 0 THEN 0 ELSE a[k] + SumTo(a, k - 1)

\* np.sum(a)
Sum(a) == SumTo(a, Size(a) - 1)

\* int(np.round(x/y)): halves go to the even neighbour
RoundDiv(x, y) ==
    LET q == x \div y
        r == x % y
    IN  IF 2 * r < y THEN q
        ELSE IF 2 * r > y THEN q + 1
        ELSE IF q % 2 = 0 THEN q ELSE q + 1

\* exact arithmetic on fractions
RatAdd(p, q) ==
    LET g == GCD(p.den, q.den)
    IN  Rat(p.num * (q.den \div g) + q.num * (p.den \div g), (p.den \div g) * q.den)
RatNeg(p) == [num |-> -p.num, den |-> p.den]
RatSub(p, q) == RatAdd(p, RatNeg(q))
RatMul(p, q) ==
    LET g1 == GCD(Abs(p.num), q.den)
        g2 == GCD(Abs(q.num), p.den)
    IN  Rat((p.num \div g1) * (q.num \div g2), (p.den \div g2) * (q.den \div g1))
RatInv(p) == IF p.num < 0 THEN Rat(-p.den, -p.num) ELSE Rat(p.den, p.num)
RatDiv(p, q) == RatMul(p, RatInv(q))
RatLess(p, q) == p.num * q.den < q.num * p.den
Int2Rat(n) == Rat(n, 1)
RatAbs(p) == IF p.num < 0 THEN RatNeg(p) ELSE p
RatLeq(p, q) == p.num * q.den <= q.num * p.den

RECURSIVE RatSumTo(_, _)
RatSumTo(a, k) == IF k < 0 THEN Int2Rat(0) ELSE RatAdd(a[k], RatSumTo(a, k - 1))

\* np.sum(a) of an array of fractions
RatSum(a) == RatSumTo(a, Size(a) - 1)

\* a value that is not a number
NaN == [nan |-> TRUE]

\* a value that is infinite
Inf == [inf |-> TRUE]

\* obspy's linear_regression(x, y, w, intercept_origin=True): the weighted least
\* squares line through the origin, weights being 1/sigma. It returns the slope
\* and its standard error, given here as the square of the error. Without points
\* it raises; with no point away from the origin the slope is not determined;
\* with one point the error is not determined.
linear_regression(x, y, w) ==
    LET n == Size(x)
        wsq == [k \in DOMAIN x |-> RatMul(w[k], w[k])]
        Sxx == RatSum([k \in DOMAIN x |-> RatMul(wsq[k], RatMul(x[k], x[k]))])
        Sxy == RatSum([k \in DOMAIN x |-> RatMul(wsq[k], RatMul(x[k], y[k]))])
        Syy == RatSum([k \in DOMAIN x |-> RatMul(wsq[k], RatMul(y[k], y[k]))])
    IN  IF n = 0 THEN [raises |-> TRUE, slope |-> NaN, stderr2 |-> NaN]
        ELSE IF Sxx.num = 0 THEN [raises |-> FALSE, slope |-> NaN, stderr2 |-> Inf]
        ELSE [raises |-> FALSE,
              slope |-> RatDiv(Sxy, Sxx),
              stderr2 |-> IF n = 1 THEN Inf
                          ELSE RatDiv(RatSub(RatDiv(Syy, Sxx),
                                             RatMul(RatDiv(Sxy, Sxx), RatDiv(Sxy, Sxx))),
                                      Int2Rat(n - 1))]

\* value * factor for a fraction, NaN or Inf
Scaled(v, factor) == IF DOMAIN v = {"num", "den"} THEN RatMul(v, Int2Rat(factor)) ELSE v

-----------------------------------------------------------------------------
(* DTW core *)

\* computeErrorFunction raises when lag >= nSample
LagProblem(n, lg) == lg >= n

\* the error function with the corners left at zero
computeErrorNoCorners(a1, a0, n, lg) ==
    [i \in 0..(n - 1) |-> [t \in 0..(2 * lg) |->
        IF (i + t - lg >= 0) /\ (i + t - lg < n)
        THEN (a1[i] - a0[i + t - lg]) * (a1[i] - a0[i + t - lg]) ELSE 0]]

\* computeErrorFunction with norm 'L2': squared differences where ii+ll is in
\* range, then constant extrapolation into the corners
computeErrorFunction(a1, a0, n, lg) ==
    LET inRange(i, sh) == (i + sh >= 0) /\ (i + sh < n)
        diff == [i \in 0..(n - 1) |-> [t \in 0..(2 * lg) |->
                    IF inRange(i, t - lg) THEN a1[i] - a0[i + (t - lg)] ELSE 0]]
        sq == [i \in 0..(n - 1) |-> [t \in 0..(2 * lg) |-> diff[i][t] * diff[i][t]]]
    IN  [i \in 0..(n - 1) |-> [t \in 0..(2 * lg) |->
            LET sh == t - lg
            IN  IF i + sh < 0 THEN sq[-sh][t]
                ELSE IF i + sh > n - 1 THEN sq[n - sh - 1][t]
                ELSE sq[i][t]]]

iBegin(dr, n) == IF dr > 0 THEN 0 ELSE n - 1
iEnd(dr, n) == IF dr > 0 THEN n - 1 ELSE 0
iInc(dr) == IF dr > 0 THEN 1 ELSE -1

\* the samples range(ji, jb + iInc - 1, -iInc) whose error is added to the
\* lag-changing candidates when the strain limit reaches further than one sample
AccumStride(ji, jb, inc) == PyRange(ji, jb + inc - 1, -inc)

RECURSIVE SumErr(_, _, _)
SumErr(e, ks, l) ==
    IF ks = <<>> THEN 0 ELSE e[Head(ks)][l] + SumErr(e, Tail(ks), l)

\* the loop over the lags of one sample: d is updated in place, lag by lag
RECURSIVE AccumLags(_, _, _, _, _, _, _, _)
AccumLags(dd, e, i, ji, jb, inc, nLag, lx) ==
    IF lx > nLag - 1 THEN dd
    ELSE LET lMinus1 == IF lx - 1 < 0 THEN 0 ELSE lx - 1
             lPlus1 == IF lx + 1 > nLag - 1 THEN nLag - 1 ELSE lx + 1
             ks == IF ji # jb THEN AccumStride(ji, jb, inc) ELSE <<>>
             distLminus1 == dd[jb][lMinus1] + SumErr(e, ks, lMinus1)
             distL == dd[ji][lx]
             distLplus1 == dd[jb][lPlus1] + SumErr(e, ks, lPlus1)
             new == e[i][lx] + Min3(distLminus1, distL, distLplus1)
         IN  AccumLags([dd EXCEPT ![i][lx] = new], e, i, ji, jb, inc, nLag, lx + 1)

\* one pass of the sample loop with only the unchanged-lag neighbour read
AccumSampleNoWarp(dd, e, i, dr, n, lg, bb) ==
    LET ji == Max2(0, Min2(n - 1, i - iInc(dr)))
    IN  [dd EXCEPT ![i] = [l \in 0..(2 * lg) |-> e[i][l] + dd[ji][l]]]

\* one pass of the sample loop of accumulateErrorFunction
AccumSample(dd, e, i, dr, n, lg, bb) ==
    LET inc == iInc(dr)
        ji == Max2(0, Min2(n - 1, i - inc))
        jb == Max2(0, Min2(n - 1, i - inc * bb))
    IN  AccumLags(dd, e, i, ji, jb, inc, 2 * lg + 1, 0)

\* the windowed and wavelet estimators when none of them runs
EstIdle ==
    /\ epc = "idle"
    /\ est = "none"
    /\ nrec = 0
    /\ mwl2 = 0
    /\ slide2 = 0
    /\ minind = 0
    /\ maxind = 0
    /\ count = 0
    /\ delta_t = <<>>
    /\ delta_err = <<>>
    /\ delta_mcoh = <<>>
    /\ time_axis = <<>>
    /\ band = <<0, 0>>
    /\ delta_t_m = <<>>
    /\ w2 = <<>>

\* the correlator when no correlate call is modelled
CorrIdle ==
    /\ cpc = "idle"
    /\ Nfft = 0
    /\ Nfft2 = 0
    /\ dt = 1
    /\ maxlag = 0
    /\ substack = FALSE
    /\ substack_len = 0
    /\ cc_len = 0
    /\ corr = <<>>
    /\ dataS_t = <<>>
    /\ handed = <<>>
    /\ corr_ampmax = <<>>
    /\ s_corr = <<>>
    /\ shape = <<>>
    /\ t_corr = <<>>
    /\ n_corr = <<>>
    /\ stack_method = "linear"
    /\ seg_peaks = <<>>
    /\ ns_corr = <<>>

CallIdle ==
    /\ heap = <<>>
    /\ log = <<>>

StretchIdle ==
    /\ zpc = "idle"
    /\ dv_range = Int2Rat(0)
    /\ nbtrial = 0
    /\ cof_imax = 0
    /\ stretched = <<>>

SegIdle ==
    /\ xpc = "idle"
    /\ fc_para = <<>>
    /\ source = <<>>
    /\ cut = <<>>

SmoothIdle ==
    /\ mpc = "idle"
    /\ cc_para = <<>>
    /\ fft1 = <<>>
    /\ sfft1 = <<>>

\* stack_para without re-binning
NoRma == [rma_substack |-> 0, rma_step |-> 1, start_date |-> 0, end_date |-> 0]

\* the stacker when no stacking call is modelled
StackIdle ==
    /\ spc = "idle"
    /\ cc_array = <<>>
    /\ cc_time = <<>>
    /\ cc_ngood = <<>>
    /\ smethod = "linear"
    /\ rma = NoRma
    /\ ret = <<>>

InitDTW ==
    /\ pc = "start"
    /\ nSample \in 1..MaxSample
    /\ u1 \in [0..(nSample - 1) -> Amps]
    /\ u0 \in [0..(nSample - 1) -> Amps]
    /\ lag \in 0..MaxLag
    /\ b \in 1..MaxB
    /\ dir \in {1, -1}
    /\ err = <<>>
    /\ d = <<>>
    /\ ii = 0
    /\ ll = 0
    /\ stbar = <<>>
    /\ tmin = 0
    /\ res = <<>>
    /\ EstIdle
    /\ CorrIdle
    /\ StackIdle
    /\ SegIdle
    /\ SmoothIdle
    /\ CallIdle
    /\ StretchIdle

\* dtw_dvv: err = computeErrorFunction(cur, ref, npts, maxLag)
ComputeError ==
    /\ pc = "start"
    /\ ~LagProblem(nSample, lag)
    /\ err' = computeErrorFunction(u1, u0, nSample, lag)
    /\ d' = Zeros2(nSample, 2 * lag + 1)
    /\ ii' = iBegin(dir, nSample)
    /\ pc' = "accumulate"
    /\ UNCHANGED <<u1, u0, nSample, lag, b, dir, ll, stbar, tmin, res>>
    /\ UNCHANGED <<estVars, corrVars, stackVars, segVars, smoothVars, callVars, strVars>>

\* computeErrorFunction raises ValueError
ComputeErrorRaises ==
    /\ pc = "start"
    /\ LagProblem(nSample, lag)
    /\ pc' = "raised"
    /\ UNCHANGED <<u1, u0, nSample, lag, b, dir, err, d, ii, ll, stbar, tmin, res>>
    /\ UNCHANGED <<estVars, corrVars, stackVars, segVars, smoothVars, callVars, strVars>>

\* accumulateErrorFunction: one pass of "for ii in range(iBegin, iEnd+iInc, iInc)"
AccumulateStep ==
    /\ pc = "accumulate"
    /\ d' = AccumSample(d, err, ii, dir, nSample, lag, b)
    /\ IF ii = iEnd(dir, nSample)
       THEN pc' = "accumulated" /\ ii' = ii
       ELSE pc' = pc /\ ii' = ii + iInc(dir)
    /\ UNCHANGED <<u1, u0, nSample, lag, b, dir, err, ll, stbar, tmin, res>>
    /\ UNCHANGED <<estVars, corrVars, stackVars, segVars, smoothVars, callVars, strVars>>

\* np.argmin(row): the first index of the smallest value
ArgMin(row) ==
    CHOOSE l \in DOMAIN row :
        /\ \A m \in DOMAIN row : row[l] <= row[m]
        /\ \A m \in DOMAIN row : m < l => row[m] > row[l]

\* the lag index taken from the first candidate that attains the minimum
BacktrackLagFirstMin(l, lMinus1, lPlus1, distLminus1, distL, distLplus1) ==
    LET dl == Min3(distLminus1, distL, distLplus1)
    IN  IF dl = distLminus1 THEN lMinus1
        ELSE IF dl = distL THEN l
        ELSE lPlus1

\* "if dl != distL: if dl == distLminus1: ll = lMinus1 else: ll = lPlus1"
BacktrackLag(l, lMinus1, lPlus1, distLminus1, distL, distLplus1) ==
    LET dl == Min3(distLminus1, distL, distLplus1)
    IN  IF dl # distL
        THEN (IF dl = distLminus1 THEN lMinus1 ELSE lPlus1)
        ELSE l

\* the samples of a stride taken up to and including jb
BacktrackStrideLong(ji, jb, inc) == PyRange(ji, jb + inc, inc)

\* the samples range(ji, jb - iInc - 1, iInc) that backtrackDistanceFunction
\* walks when the strain limit reaches further than one sample
BacktrackStride(ji, jb, inc) == PyRange(ji, jb - inc - 1, inc)

\* dtw_dvv: stbar = backtrackDistanceFunction(-direction, dist, err, -maxLag, b),
\* up to the while loop
BacktrackStart ==
    /\ pc = "accumulated"
    /\ LET i0 == iBegin(-dir, nSample)
           l0 == ArgMin(d[i0])
       IN  /\ ll' = l0
           /\ stbar' = [[i \in 0..(nSample - 1) |-> 0] EXCEPT ![i0] = l0 - lag]
           /\ ii' = i0
    /\ pc' = "backtrack"
    /\ UNCHANGED <<u1, u0, nSample, lag, b, dir, err, d, tmin, res>>
    /\ UNCHANGED <<estVars, corrVars, stackVars, segVars, smoothVars, callVars, strVars>>

\* backtrackDistanceFunction: one pass of "while ii != iEnd"
BacktrackStep ==
    /\ pc = "backtrack"
    /\ ii # iEnd(-dir, nSample)
    /\ LET inc == iInc(-dir)
           nLag == 2 * lag + 1
           ji == Max2(0, Min2(nSample - 1, ii + inc))
           jb == Max2(0, Min2(nSample - 1, ii + inc * b))
           lMinus1 == IF ll - 1 < 0 THEN 0 ELSE ll - 1
           lPlus1 == IF ll + 1 > nLag - 1 THEN nLag - 1 ELSE ll + 1
           ks == IF ji # jb THEN BacktrackStride(ji, jb, inc) ELSE <<>>
           distLminus1 == d[jb][lMinus1] + SumErr(err, ks, lMinus1)
           distL == d[ji][ll]
           distLplus1 == d[jb][lPlus1] + SumErr(err, ks, lPlus1)
           dl == Min3(distLminus1, distL, distLplus1)
           newll == BacktrackLag(ll, lMinus1, lPlus1, distLminus1, distL, distLplus1)
           i1 == ii + inc
           more == IF (newll = lMinus1 \/ newll = lPlus1) /\ ji # jb
                   THEN Len(ks) ELSE 0
           filled == {i1 + k * inc : k \in 0..more}
       IN  /\ ll' = newll
           /\ ii' = i1 + more * inc
           /\ stbar' = [i \in 0..(nSample - 1) |->
                            IF i \in filled THEN newll - lag ELSE stbar[i]]
    /\ UNCHANGED <<pc, u1, u0, nSample, lag, b, dir, err, d, tmin, res>>
    /\ UNCHANGED <<estVars, corrVars, stackVars, segVars, smoothVars, callVars, strVars>>

\* starts of the measurement window, in samples
TMins == {0, 5}

\* the time of sample i: tvect = np.arange(tmin, tmax, dt), in samples
Tvect(t0, n) == [i \in 0..(n - 1) |-> t0 + i]

\* np.where((tvect >= 0.05*npts*dt) & (tvect <= 0.95*npts*dt))[0]
DtwIndx(t0, n) ==
    WhereIn({i \in 0..(n - 1) : 20 * (t0 + i) >= n /\ 20 * (t0 + i) <= 19 * n})

\* the regression of dtw_dvv and what it returns: (m0*100, em0*100), the error
\* as its square
DtwResult(t0, n, shifts) ==
    LET indx == DtwIndx(t0, n)
        fit == linear_regression([k \in DOMAIN indx |-> Int2Rat(Tvect(t0, n)[indx[k]])],
                                 [k \in DOMAIN indx |-> Int2Rat(shifts[indx[k]])],
                                 [k \in DOMAIN indx |-> Int2Rat(1)])
    IN  IF n > 2
        THEN [raises |-> fit.raises,
              dvv |-> Scaled(fit.slope, 100), err2 |-> Scaled(fit.stderr2, 10000)]
        ELSE [raises |-> FALSE, dvv |-> Int2Rat(0), err2 |-> Int2Rat(0)]

\* dtw_dvv after the backtracking: the regression of the shifts on the time
DtwRegress ==
    /\ pc = "backtrack"
    /\ ii = iEnd(-dir, nSample)
    /\ \E t0 \in TMins :
        /\ tmin' = t0
        /\ res' = DtwResult(t0, nSample, stbar)
        /\ pc' = IF DtwResult(t0, nSample, stbar).raises THEN "raised" ELSE "returned"
    /\ UNCHANGED <<u1, u0, nSample, lag, b, dir, err, d, ii, ll, stbar>>
    /\ UNCHANGED <<estVars, corrVars, stackVars, segVars, smoothVars, callVars, strVars>>

NextDTW ==
    \/ ComputeError
    \/ ComputeErrorRaises
    \/ AccumulateStep
    \/ BacktrackStart
    \/ BacktrackStep
    \/ DtwRegress

SpecDTW == InitDTW /\ [][NextDTW]_vars

\* the DTW core when no DTW run is modelled
DtwIdle ==
    /\ pc = "idle"
    /\ u1 = <<>>
    /\ u0 = <<>>
    /\ nSample = 0
    /\ lag = 0
    /\ b = 1
    /\ dir = 1
    /\ err = <<>>
    /\ d = <<>>
    /\ ii = 0
    /\ ll = 0
    /\ stbar = <<>>

-----------------------------------------------------------------------------
(* Windowed and wavelet dv/v estimators. Times and delays are in seconds with
   dt = 1 s, so a time in seconds is a time in samples; moving_window_length
   and slide_step are given in half samples. *)

\* list.append on an array
Append0(a, v) == [i \in 0..Size(a) |-> IF i < Size(a) THEN a[i] ELSE v]

\* int(x/dt) for x given in half samples
IntSamples(x2) == x2 \div 2

\* what one window of mwcs_dvv measures from the cross-spectrum: delay m, error
\* e and mean coherence mcoh
MwcsMeasures ==
    { [m |-> Rat(1, 20),  e |-> Rat(1, 20), mcoh |-> Rat(4, 5)],
      [m |-> Rat(1, 20),  e |-> Rat(1, 20), mcoh |-> Rat(1, 2)],
      [m |-> Rat(1, 20),  e |-> Rat(3, 20), mcoh |-> Rat(4, 5)],
      [m |-> Rat(3, 20),  e |-> Rat(1, 20), mcoh |-> Rat(4, 5)],
      [m |-> Rat(-3, 20), e |-> Rat(1, 20), mcoh |-> Rat(4, 5)] }

MaxRec == 3            \* longest record
MaxWindows == 4        \* windows measured before the model stops following the loop
WindowLengths == {2, 4, 5}   \* moving_window_length, in half samples
SlideSteps == {1, 2, 4}      \* slide_step, in half samples
Bands == {<<2, 5>>, <<1, 5>>, <<3, 4>>, <<2, 6>>, <<4, 4>>}
Freqs == {2, 5}        \* frequencies of the wavelet transform
MaxPts == 3            \* longest measurement window of wxs_dvv
WxsDelays == {Rat(0, 1), Rat(1, 20)}
WxsWeights == {Rat(1, 1), Rat(2, 1)}

\* tmin + moving_window_length/2. + count*slide_step
CentreTime(t0, len2, step2, k) == Rat(4 * t0 + len2 + 2 * k * step2, 4)

InitEst ==
    /\ est \in {"mwcs", "wcc", "wxs"}
    /\ epc = IF est = "wxs" THEN "start" ELSE "loop"
    /\ tmin \in TMins
    /\ res = <<>>
    /\ IF est = "wxs"
       THEN /\ nrec \in 0..MaxPts
            /\ mwl2 = 0
            /\ slide2 = 0
            /\ band \in Bands
            /\ delta_t_m \in [0..(nrec - 1) -> WxsDelays]
            /\ w2 \in [0..(nrec - 1) -> WxsWeights]
       ELSE /\ nrec \in 1..MaxRec
            /\ mwl2 \in WindowLengths
            /\ slide2 \in SlideSteps
            /\ band = <<0, 0>>
            /\ delta_t_m = <<>>
            /\ w2 = <<>>
    /\ minind = 0
    /\ maxind = IntSamples(mwl2)
    /\ count = 0
    /\ delta_t = <<>>
    /\ delta_err = <<>>
    /\ delta_mcoh = <<>>
    /\ time_axis = <<>>
    /\ DtwIdle
    /\ CorrIdle
    /\ StackIdle
    /\ SegIdle
    /\ SmoothIdle
    /\ CallIdle
    /\ StretchIdle

\* mwcs_dvv: one pass of "while maxind <= len(ref)"
MwcsWindow ==
    /\ est = "mwcs"
    /\ epc = "loop"
    /\ maxind <= nrec
    /\ count < MaxWindows
    /\ minind' = minind + IntSamples(slide2)
    /\ maxind' = maxind + IntSamples(slide2)
    /\ \E x \in MwcsMeasures :
        /\ delta_t' = Append0(delta_t, x.m)
        /\ delta_err' = Append0(delta_err, x.e)
        /\ delta_mcoh' = Append0(delta_mcoh, x.mcoh)
    /\ time_axis' = Append0(time_axis, CentreTime(tmin, mwl2, slide2, count))
    /\ count' = count + 1
    /\ UNCHANGED <<epc, est, nrec, mwl2, slide2, band, delta_t_m, w2, tmin, res>>
    /\ UNCHANGED <<dtwVars, corrVars, stackVars, segVars, smoothVars, callVars, strVars>>

delta_mincho == Rat(65, 100)
delta_maxerr == Rat(1, 10)
delta_maxdt == Rat(1, 10)

\* the windows mwcs_dvv hands to its regression
MwcsIndx(mcoh, e, m) ==
    WhereIn({i \in DOMAIN m : /\ RatLess(delta_mincho, mcoh[i])
                              /\ RatLess(e[i], delta_maxerr)
                              /\ RatLess(m[i], delta_maxdt)})

\* 1/delta_err, with 1.0 where that is not finite
InvOrOne(e) == IF e.num = 0 THEN Int2Rat(1) ELSE RatInv(e)

\* what an estimator returns from its regression: (-m0*100, em0*100), the error
\* as its square
Negated(fit) ==
    [raises |-> fit.raises,
     dvv |-> IF DOMAIN fit.slope = {"num", "den"}
             THEN RatNeg(Scaled(fit.slope, 100)) ELSE fit.slope,
     err2 |-> Scaled(fit.stderr2, 10000)]

ZeroEstimate == [raises |-> FALSE, dvv |-> Int2Rat(0), err2 |-> Int2Rat(0)]

MwcsResult(taxis, m, e, mcoh) ==
    LET indx == MwcsIndx(mcoh, e, m)
    IN  IF Size(indx) > 2
        THEN Negated(linear_regression(Take(taxis, indx), Take(m, indx),
                                       [k \in DOMAIN indx |-> InvOrOne(e[indx[k]])]))
        ELSE ZeroEstimate

\* mwcs_dvv after the window loop
MwcsFinish ==
    /\ est = "mwcs"
    /\ epc = "loop"
    /\ maxind > nrec
    /\ res' = MwcsResult(time_axis, delta_t, delta_err, delta_mcoh)
    /\ epc' = "returned"
    /\ UNCHANGED <<est, nrec, mwl2, slide2, minind, maxind, count, delta_t,
                   delta_err, delta_mcoh, time_axis, band, delta_t_m, w2, tmin>>
    /\ UNCHANGED <<dtwVars, corrVars, stackVars, segVars, smoothVars, callVars, strVars>>

\* WCC_dvv: one pass of "while maxind <= len(ref)"; imaxcc2 is the sample of the
\* window at which the correlation of the two windows peaks
WccWindow ==
    /\ est = "wcc"
    /\ epc = "loop"
    /\ maxind <= nrec
    /\ count < MaxWindows
    /\ minind' = minind + IntSamples(slide2)
    /\ maxind' = maxind + IntSamples(slide2)
    /\ \E imaxcc2 \in 0..(maxind - minind - 1) :
        delta_t' = Append0(delta_t, Int2Rat(imaxcc2 - ((maxind' - minind') \div 2)))
    /\ time_axis' = Append0(time_axis, CentreTime(tmin, mwl2, slide2, count))
    /\ count' = count + 1
    /\ UNCHANGED <<epc, est, nrec, mwl2, slide2, delta_err, delta_mcoh, band,
                   delta_t_m, w2, tmin, res>>
    /\ UNCHANGED <<dtwVars, corrVars, stackVars, segVars, smoothVars, callVars, strVars>>

WccResult(taxis, m, n) ==
    IF n > 2
    THEN Negated(linear_regression(taxis, m, [k \in DOMAIN taxis |-> Int2Rat(1)]))
    ELSE ZeroEstimate

\* WCC_dvv after the window loop: "del cci, cri, ..." names variables that exist
\* only when a window was measured
WccFinish ==
    /\ est = "wcc"
    /\ epc = "loop"
    /\ maxind > nrec
    /\ IF count = 0
       THEN epc' = "raised" /\ res' = res
       ELSE epc' = "returned" /\ res' = WccResult(time_axis, delta_t, count)
    /\ UNCHANGED <<est, nrec, mwl2, slide2, minind, maxind, count, delta_t,
                   delta_err, delta_mcoh, time_axis, band, delta_t_m, w2, tmin>>
    /\ UNCHANGED <<dtwVars, corrVars, stackVars, segVars, smoothVars, callVars, strVars>>

\* wxs_dvv: (fmax > np.max(freq)) | (fmax <= fmin)
BandProblem(bd) == bd[2] > MaxOf([f \in Freqs |-> f]) \/ bd[2] <= bd[1]

\* np.where((freq >= fmin) & (freq <= fmax))[0], as the frequencies
freq_indin(bd) == {f \in Freqs : f >= bd[1] /\ f <= bd[2]}

\* wxs_dvv with allfreq=False: one regression of the phase over the band for each
\* time sample, then the regression of these delays over the time
WxsResult(t0, n, m, w, bd) ==
    IF n > 2
    THEN Negated(linear_regression([k \in 0..(n - 1) |-> Int2Rat(Tvect(t0, n)[k])], m, w))
    ELSE [raises |-> FALSE, dvv |-> NaN, err2 |-> NaN]

Wxs ==
    /\ est = "wxs"
    /\ epc = "start"
    /\ IF BandProblem(band) \/ (freq_indin(band) = {} /\ nrec > 0)
       THEN epc' = "raised" /\ res' = res
       ELSE /\ res' = WxsResult(tmin, nrec, delta_t_m, w2, band)
            /\ epc' = IF WxsResult(tmin, nrec, delta_t_m, w2, band).raises
                      THEN "raised" ELSE "returned"
    /\ UNCHANGED <<est, nrec, mwl2, slide2, minind, maxind, count, delta_t,
                   delta_err, delta_mcoh, time_axis, band, delta_t_m, w2, tmin>>
    /\ UNCHANGED <<dtwVars, corrVars, stackVars, segVars, smoothVars, callVars, strVars>>

NextEst == MwcsWindow \/ MwcsFinish \/ WccWindow \/ WccFinish \/ Wxs

\* every estimator that ends in a linear regression
SpecDvv == (InitDTW \/ InitEst) /\ [][NextDTW \/ NextEst]_vars

-----------------------------------------------------------------------------
(* Stacker *)

\* a Python list or tuple as an array over 0..n-1
Arr(s) == [i \in 0..(Len(s) - 1) |-> s[i + 1]]

\* the factor of the batch median above which a row is abnormal
OutlierFactor == 20

\* np.max(cc_array, axis=1): the largest sample of each row
RowMax(rows) == [i \in DOMAIN rows |-> MaxOf(rows[i])]

\* the rule with the factor mistyped as 200
GoodRowFactor200(ampmax, i) ==
    /\ 2 * ampmax[i] < 200 * Median2(ampmax)
    /\ ampmax[i] > 0

\* (ampmax < 20*np.median(ampmax)) & (ampmax > 0), for row i
GoodRow(ampmax, i) ==
    /\ 2 * ampmax[i] < OutlierFactor * Median2(ampmax)
    /\ ampmax[i] > 0

\* the index of every row, as if no row were abnormal
EveryIndex(ampmax) == WhereIn(DOMAIN ampmax)

\* tindx = np.where(...)[0]
GoodIndex(ampmax) == WhereIn({i \in DOMAIN ampmax : GoodRow(ampmax, i)})

\* np.zeros(npts)
ZeroStack(npts) == [j \in 0..(npts - 1) |-> Rat(0, 1)]

\* the column sums, left undivided
SumRows(rows, npts) ==
    [j \in 0..(npts - 1) |-> Rat(Sum([i \in DOMAIN rows |-> rows[i][j]]), 1)]

\* np.mean(rows, axis=0) of a non-empty matrix
MeanRows(rows, npts) ==
    [j \in 0..(npts - 1) |->
        Rat(Sum([i \in DOMAIN rows |-> rows[i][j]]), Size(rows))]

\* the estimators of seispy.stacking: each returns npts samples, every one a
\* function of the rows handed over
Estimate(name, rows, npts) ==
    [j \in 0..(npts - 1) |-> [estimator |-> name, rows |-> rows, sample |-> j]]
pws(rows, npts) == Estimate("pws", rows, npts)
robust_stack(rows, npts) == Estimate("robust_stack", rows, npts)
adaptive_filter(rows, npts) == Estimate("adaptive_filter", rows, npts)
nroot_stack(rows, npts) == Estimate("nroot_stack", rows, npts)
selective_stack(rows, npts) == Estimate("selective_stack", rows, npts)

\* the method names the stacking configuration advertises
StackMethods == {"linear", "pws", "robust", "nroot", "acf", "selective", "all"}

\* the if/elif chain of stacking() over smethod: what allstacks1, allstacks2 and
\* allstacks3 hold after it.  The 'acf' and 'nroot' branches assign a variable
\* named allstack1, which is not returned; a name the chain does not test
\* falls through it.
StackChain(method, rows, npts) ==
    LET zero == ZeroStack(npts)
        allstack1 == IF method = "acf" THEN adaptive_filter(rows, npts)
                     ELSE nroot_stack(rows, npts)
    IN  CASE method = "linear" ->
                [allstacks1 |-> MeanRows(rows, npts), allstacks2 |-> zero, allstacks3 |-> zero]
          [] method = "pws" ->
                [allstacks1 |-> pws(rows, npts), allstacks2 |-> zero, allstacks3 |-> zero]
          [] method = "robust" ->
                [allstacks1 |-> robust_stack(rows, npts), allstacks2 |-> zero, allstacks3 |-> zero]
          [] method = "all" ->
                [allstacks1 |-> MeanRows(rows, npts), allstacks2 |-> pws(rows, npts),
                 allstacks3 |-> robust_stack(rows, npts)]
          [] OTHER ->
                [allstacks1 |-> zero, allstacks2 |-> zero, allstacks3 |-> zero]

\* what stacking(cc_array, cc_time, cc_ngood, stack_para) returns
stacking(rows, times, ngood, method) ==
    LET npts == Size(rows[0])
        ampmax == RowMax(rows)
        tindx == GoodIndex(ampmax)
        kept == Take(rows, tindx)
        st == StackChain(method, kept, npts)
    IN  IF Size(tindx) = 0
        THEN [cc_array |-> <<>>, cc_ngood |-> <<>>, cc_time |-> <<>>,
              allstacks1 |-> <<>>, allstacks2 |-> <<>>, allstacks3 |-> <<>>,
              nstacks |-> 0]
        ELSE [cc_array |-> kept, cc_ngood |-> Take(ngood, tindx),
              cc_time |-> Take(times, tindx),
              allstacks1 |-> st.allstacks1, allstacks2 |-> st.allstacks2,
              allstacks3 |-> st.allstacks3,
              nstacks |-> Sum(Take(ngood, tindx))]

\* the if/elif chain of stacking_rma() over smethod.  robust_stack returns the
\* stack, the weights and the number of steps: the 'all' branch keeps all three
\* in allstacks3 (the 'robust' branch, which unpacks two names, is in
\* stacking_rma below).
RmaChain(method, rows, npts) ==
    LET zero == ZeroStack(npts)
    IN  CASE method = "linear" ->
                [allstacks1 |-> MeanRows(rows, npts), allstacks2 |-> zero,
                 allstacks3 |-> zero, allstacks4 |-> zero]
          [] method = "pws" ->
                [allstacks1 |-> pws(rows, npts), allstacks2 |-> zero,
                 allstacks3 |-> zero, allstacks4 |-> zero]
          [] method = "all" ->
                [allstacks1 |-> MeanRows(rows, npts), allstacks2 |-> pws(rows, npts),
                 allstacks3 |-> <<robust_stack(rows, npts), "w", "nstep">>,
                 allstacks4 |-> selective_stack(rows, npts)]
          [] OTHER ->
                [allstacks1 |-> zero, allstacks2 |-> zero,
                 allstacks3 |-> zero, allstacks4 |-> zero]

\* sindx = np.where((cc_time >= ttime) & (cc_time < ttime + rma_substack*3600))[0],
\* times and widths in hours
RmaBinIndex(times, ttime, width) ==
    WhereIn({i \in DOMAIN times : times[i] >= ttime /\ times[i] < ttime + width})

\* what stacking_rma(cc_array, cc_time, cc_ngood, stack_para) returns; the
\* start and end dates are hours since 1970 (np.float and np.int are taken to
\* exist, as in the numpy releases the package was written for)
stacking_rma(rows, times, ngood, method, para) ==
    LET npts == Size(rows[0])
        ampmax == RowMax(rows)
        tindx == GoodIndex(ampmax)
        kept == Take(rows, tindx)
        ktime == Take(times, tindx)
        kgood == Take(ngood, tindx)
        nstack == RoundDiv(para.end_date - para.start_date, para.rma_step)
        ttime(k) == para.start_date + k * para.rma_step
        sindx(k) == RmaBinIndex(ktime, ttime(k), para.rma_substack)
        ncc_ngood == [k \in 0..(nstack - 1) |->
                        IF Size(sindx(k)) > 0 THEN Sum(Take(kgood, sindx(k))) ELSE 0]
        bins == WhereIn({k \in 0..(nstack - 1) : ncc_ngood[k] > 0})
        ncc_array == [k \in DOMAIN bins |-> MeanRows(Take(kept, sindx(bins[k])), npts)]
        ncc_time == [k \in DOMAIN bins |-> ttime(bins[k])]
        st == RmaChain(method, kept, npts)
    IN  IF Size(tindx) = 0
        THEN [cc_array |-> <<>>, cc_ngood |-> <<>>, cc_time |-> <<>>,
              allstacks1 |-> <<>>, allstacks2 |-> <<>>, nstacks |-> 0]
        ELSE IF method = "robust"
        THEN [raises |-> "ValueError"]
        ELSE [cc_array |-> IF para.rma_substack # 0 THEN ncc_array ELSE kept,
              cc_ngood |-> IF para.rma_substack # 0 THEN Take(ncc_ngood, bins) ELSE kgood,
              cc_time |-> IF para.rma_substack # 0 THEN ncc_time ELSE ktime,
              allstacks1 |-> st.allstacks1, allstacks2 |-> st.allstacks2,
              allstacks3 |-> st.allstacks3, allstacks4 |-> st.allstacks4,
              nstacks |-> Sum(kgood)]

\* stack_para of the calls of stacking_rma: no re-binning; bins of two hours
\* every hour, which overlap; bins of one hour every hour over a date range
\* that starts after the first row
RmaParas ==
    {NoRma,
     [rma_substack |-> 2, rma_step |-> 1, start_date |-> 0, end_date |-> 4],
     [rma_substack |-> 1, rma_step |-> 1, start_date |-> 1, end_date |-> 4]}

\* CCF rows of two samples: an ordinary row, a larger ordinary row, a row with a
\* large negative excursion, a row with a large positive peak, a row whose
\* largest sample is 20 times the ordinary one, an all-zero row and a row
\* below zero throughout
RowKinds ==
    {Arr(<<1, -1>>), Arr(<<2, 1>>), Arr(<<1, -100>>), Arr(<<100, -1>>),
     Arr(<<20, 0>>), Arr(<<0, 0>>), Arr(<<-1, -2>>)}

\* per-row contribution counts of a batch of n rows: one segment each, or a
\* growing number of segments
Counts(n) == {[i \in 0..(n - 1) |-> 1], [i \in 0..(n - 1) |-> i + 1]}

InitStack ==
    /\ spc = "call"
    /\ \E n \in 1..MaxRows :
        /\ cc_array \in [0..(n - 1) -> RowKinds]
        /\ cc_ngood \in Counts(n)
        /\ cc_time = [i \in 0..(n - 1) |-> i]
    /\ smethod \in StackMethods \cup {"median"}
    /\ rma = NoRma
    /\ ret = <<>>
    /\ DtwIdle
    /\ tmin = 0
    /\ res = <<>>
    /\ EstIdle
    /\ CorrIdle
    /\ SegIdle
    /\ SmoothIdle
    /\ CallIdle
    /\ StretchIdle

\* a call of stacking()
Stacking ==
    /\ spc = "call"
    /\ ret' = stacking(cc_array, cc_time, cc_ngood, smethod)
    /\ spc' = "returned"
    /\ UNCHANGED <<cc_array, cc_time, cc_ngood, smethod, rma>>
    /\ UNCHANGED <<dtwVars, dvvVars, estVars, corrVars, segVars, smoothVars, callVars, strVars>>

\* a call of stacking_rma() with the re-binning parameters para
StackingRma ==
    /\ spc = "call"
    /\ \E para \in RmaParas :
        /\ rma' = para
        /\ ret' = stacking_rma(cc_array, cc_time, cc_ngood, smethod, para)
    /\ spc' = "returned_rma"
    /\ UNCHANGED <<cc_array, cc_time, cc_ngood, smethod>>
    /\ UNCHANGED <<dtwVars, dvvVars, estVars, corrVars, segVars, smoothVars, callVars, strVars>>

NextStack == Stacking \/ StackingRma

SpecStack == InitStack /\ [][NextStack]_vars

-----------------------------------------------------------------------------
(* Correlator. dt and maxlag are whole numbers of one time unit; the timestamps
   and substack_len are whole numbers of segment lengths, so cc_len is 1. *)

\* complex numbers with exact parts
Cplx(x, y) == [re |-> Int2Rat(x), im |-> Int2Rat(y)]
CZero == Cplx(0, 0)
CNaN == [re |-> NaN, im |-> NaN]
CAdd(p, q) == [re |-> RatAdd(p.re, q.re), im |-> RatAdd(p.im, q.im)]
CSub(p, q) == [re |-> RatSub(p.re, q.re), im |-> RatSub(p.im, q.im)]
CConj(p) == IF p = CNaN THEN p ELSE [re |-> p.re, im |-> RatNeg(p.im)]
CTimes(p, k) == [re |-> RatMul(p.re, Int2Rat(k)), im |-> RatMul(p.im, Int2Rat(k))]
COver(p, k) == [re |-> RatDiv(p.re, Int2Rat(k)), im |-> RatDiv(p.im, Int2Rat(k))]

\* numpy orders complex numbers by the real part, then by the imaginary part
CLess(p, q) == RatLess(p.re, q.re) \/ (p.re = q.re /\ RatLess(p.im, q.im))
CLeq(p, q) == p = q \/ CLess(p, q)

RECURSIVE CSumTo(_, _)
CSumTo(a, k) == IF k < 0 THEN CZero ELSE CAdd(a[k], CSumTo(a, k - 1))

\* np.mean(a) of a non-empty complex array
CMean(a) == COver(CSumTo(a, Size(a) - 1), Size(a))

\* np.mean(corr[idx, :], axis=0) for a non-empty index array idx
RowsMean(rows, idx, n2) ==
    [k \in 0..(n2 - 1) |-> CMean([r \in DOMAIN idx |-> rows[idx[r]][k]])]

\* np.max(a) of a non-empty complex array
CMaxOf(a) == CHOOSE v \in Values(a) : \A u \in Values(a) : CLeq(u, v)

\* the k-th smallest value (k from 0) of a non-empty complex array
CKth(a, k) ==
    CHOOSE v \in Values(a) :
        /\ Cardinality({i \in DOMAIN a : CLess(a[i], v)}) <= k
        /\ k < Cardinality({i \in DOMAIN a : CLeq(a[i], v)})

\* twice np.median(a) of a non-empty complex array
CMedian2(a) ==
    LET n == Size(a)
    IN  IF n % 2 = 1 THEN CTimes(CKth(a, (n - 1) \div 2), 2)
        ELSE CAdd(CKth(a, n \div 2 - 1), CKth(a, n \div 2))

\* the spectrum handed to the inverse transform: the row without its mean in
\* crap[:Nfft2], its flipped conjugate in crap[-Nfft2+1:], zero in between, and
\* crap[0] set to zero where the branch does so
Spectrum(row, N, n2, zeroDC) ==
    LET mu == CMean(row)
        first == [k \in 0..(n2 - 1) |-> CSub(row[k], mu)]
    IN  [k \in 0..(N - 1) |->
            IF k = 0 /\ zeroDC THEN CZero
            ELSE IF k >= N - n2 + 1 THEN CConj(first[N - k])
            ELSE IF k < n2 THEN first[k]
            ELSE CZero]

\* the spectrum of the daily average when the outlier rule keeps no segment:
\* the mean of no rows is not a number
NaNSpectrum(N, n2) ==
    [k \in 0..(N - 1) |->
        IF k >= N - n2 + 1 \/ k < n2 THEN CNaN ELSE CZero]

\* scipy.fftpack.ifft(crap, Nfft) for the spectrum of row r: sample n of the
\* inverse transform
ifft(r, N) == [n \in 0..(N - 1) |-> [row |-> r, n |-> n]]

\* np.fft.ifftshift(x): x rolled by -(len(x)//2)
ifftshift(x) ==
    LET N == Size(x) IN [j \in 0..(N - 1) |-> x[(j + N \div 2) % N]]

\* a sample of a row of np.zeros
ZeroSample == [zero |-> TRUE]

\* ind with the comparison mistyped as strict
LagIndexStrict(n2, step, lagmax) ==
    WhereIn({k \in 0..(2 * n2 - 2) : Abs((k - n2 + 1) * step) < lagmax})

\* t = np.arange(-Nfft2+1, Nfft2)*dt; ind = np.where(np.abs(t) <= maxlag)[0]
LagIndex(n2, step, lagmax) ==
    WhereIn({k \in 0..(2 * n2 - 2) : Abs((k - n2 + 1) * step) <= lagmax})

\* whether the inverse transform of the spectrum is zero throughout
IsZeroSpectrum(crap) == crap = <<>> \/ \A k \in DOMAIN crap : crap[k] = CZero

\* the largest sample np.max(s_corr, axis=1) can find in each row: zero for a row
\* of zeros, some positive value for the transform of a non-zero spectrum
Peaks == {1, 30}
PeakChoices(spectra) ==
    {amp \in [DOMAIN spectra -> Peaks \cup {0}] :
        \A i \in DOMAIN spectra : (amp[i] = 0) <=> IsZeroSpectrum(spectra[i])}

\* the spectra other than the skipped ones, in order
RECURSIVE Handed(_, _)
Handed(spectra, k) ==
    IF k >= Size(spectra) THEN <<>>
    ELSE (IF spectra[k] = <<>> THEN <<>> ELSE <<spectra[k]>>) \o Handed(spectra, k + 1)

\* np.real(np.fft.ifftshift(scipy.fftpack.ifft(crap, Nfft, axis=0))), or the row of
\* zeros of a skipped bin
TimeRow(crap, r, N) ==
    IF crap = <<>> THEN [j \in 0..(N - 1) |-> ZeroSample] ELSE ifftshift(ifft(r, N))

\* row descriptions of a cross-spectrum: equal values, real values growing with
\* the frequency, imaginary values falling with the frequency
CorrKinds == {"flat", "ramp", "phase"}
CorrRow(kind, n2) ==
    [k \in 0..(n2 - 1) |->
        CASE kind = "flat" -> Cplx(1, 0)
          [] kind = "ramp" -> Cplx(k + 1, 0)
          [] OTHER -> Cplx(0, -(k + 1))]

MaxNfft2 == 3        \* most spectral points
MaxWin == 2          \* most segments
MaxMaxlag == 4       \* largest maxlag
Intervals == {1, 2}  \* sample intervals
MaxBin == 2          \* longest bin, in segments
Gaps == {1, 2, 7}    \* distance of the segment starts, in segments

\* the arguments of a call of correlate or correlate_nonlinear_stack
CorrInputs ==
    /\ cpc = "call"
    /\ Nfft2 \in 2..MaxNfft2
    /\ Nfft \in {2 * Nfft2, 2 * Nfft2 + 1}
    /\ dt \in Intervals
    /\ maxlag \in 0..MaxMaxlag
    /\ substack \in BOOLEAN
    /\ cc_len = 1
    /\ substack_len \in IF substack THEN 1..MaxBin ELSE {cc_len}
    /\ \E nwin \in 1..MaxWin :
        /\ \E kinds \in [0..(nwin - 1) -> CorrKinds] :
              corr = [i \in 0..(nwin - 1) |-> CorrRow(kinds[i], Nfft2)]
        /\ dataS_t \in {[i \in 0..(nwin - 1) |-> g * i * cc_len] : g \in Gaps}
    /\ handed = <<>>
    /\ corr_ampmax = <<>>
    /\ s_corr = <<>>
    /\ shape = <<>>
    /\ t_corr = <<>>
    /\ n_corr = <<>>
    /\ seg_peaks = <<>>
    /\ ns_corr = <<>>
    /\ DtwIdle
    /\ tmin = 0
    /\ res = <<>>
    /\ EstIdle
    /\ StackIdle
    /\ SegIdle
    /\ SmoothIdle
    /\ CallIdle
    /\ StretchIdle

InitCorr == CorrInputs /\ stack_method = "linear"

\* s_corr[:, ind] of the rows tindx keeps
TrimRows(rows, tindx, ind) ==
    [r \in DOMAIN tindx |-> Take(rows[tindx[r]], ind)]

\* correlate with substack and substack_len == cc_len: one row per segment
PerSegment ==
    LET nwin == Size(corr)
        spectra == [i \in 0..(nwin - 1) |-> Spectrum(corr[i], Nfft, Nfft2, TRUE)]
        rows == [i \in 0..(nwin - 1) |-> TimeRow(spectra[i], i, Nfft)]
        ind == LagIndex(Nfft2, dt, maxlag)
    IN  \E amp \in PeakChoices(spectra) :
            LET tindx == GoodIndex(amp)
            IN  /\ handed' = Handed(spectra, 0)
                /\ corr_ampmax' = amp
                /\ s_corr' = TrimRows(rows, tindx, ind)
                /\ shape' = <<Size(tindx), Size(ind)>>
                /\ t_corr' = Take(dataS_t, tindx)
                /\ n_corr' = [r \in DOMAIN tindx |-> 1]

\* the segments of bin istack with the end of the bin taken into the bin
itimeClosed(istack) ==
    LET tstart == dataS_t[0] + istack * substack_len
    IN  WhereIn({i \in DOMAIN dataS_t :
                    dataS_t[i] >= tstart /\ dataS_t[i] <= tstart + substack_len})

\* the segments of bin istack: np.where((dataS_t >= tstart) & (dataS_t < tstart+substack_len))[0]
itime(istack) ==
    LET tstart == dataS_t[0] + istack * substack_len
    IN  WhereIn({i \in DOMAIN dataS_t :
                    dataS_t[i] >= tstart /\ dataS_t[i] < tstart + substack_len})

\* correlate with substack and substack_len != cc_len: one row per bin
Binned ==
    LET nwin == Size(corr)
        Ttotal == dataS_t[nwin - 1] - dataS_t[0]
        nstack == RoundDiv(Ttotal, substack_len)
        spectra == [k \in 0..(nstack - 1) |->
                       IF Size(itime(k)) = 0 THEN <<>>
                       ELSE Spectrum(RowsMean(corr, itime(k), Nfft2), Nfft, Nfft2, TRUE)]
        rows == [k \in 0..(nstack - 1) |-> TimeRow(spectra[k], k, Nfft)]
        counts == [k \in 0..(nstack - 1) |-> Size(itime(k))]
        stamps == [k \in 0..(nstack - 1) |->
                      IF Size(itime(k)) = 0 THEN 0 ELSE dataS_t[0] + k * substack_len]
        ind == LagIndex(Nfft2, dt, maxlag)
    IN  \E amp \in PeakChoices(spectra) :
            LET tindx == GoodIndex(amp)
            IN  /\ handed' = Handed(spectra, 0)
                /\ corr_ampmax' = amp
                /\ s_corr' = TrimRows(rows, tindx, ind)
                /\ shape' = <<Size(tindx), Size(ind)>>
                /\ t_corr' = Take(stamps, tindx)
                /\ n_corr' = Take(counts, tindx)

\* (ampmax < 20*np.median(ampmax)) & (ampmax > 0) on ampmax = np.max(corr, axis=1)
GoodSpectrumIndex(amp) ==
    LET limit == CTimes(CMedian2(amp), OutlierFactor)
    IN  WhereIn({i \in DOMAIN amp :
                    CLess(CTimes(amp[i], 2), limit) /\ CLess(CZero, amp[i])})

\* correlate without substack: the average of the day
DailyAverage ==
    LET nwin == Size(corr)
        amp == [i \in 0..(nwin - 1) |-> CMaxOf(corr[i])]
        tindx == GoodSpectrumIndex(amp)
        crap == IF Size(tindx) = 0 THEN NaNSpectrum(Nfft, Nfft2)
                ELSE Spectrum(RowsMean(corr, tindx, Nfft2), Nfft, Nfft2, FALSE)
        ind == LagIndex(Nfft2, dt, maxlag)
    IN  /\ handed' = <<crap>>
        /\ corr_ampmax' = amp
        /\ s_corr' = Take(TimeRow(crap, 0, Nfft), ind)
        /\ shape' = <<Size(ind)>>
        /\ t_corr' = dataS_t[0]
        /\ n_corr' = nwin

\* correlate(fft1_smoothed_abs, fft2, D, Nfft, dataS_t), from the cross-spectrum
\* corr of l.211 on
Correlate ==
    /\ cpc = "call"
    /\ IF substack
       THEN (IF substack_len = cc_len THEN PerSegment ELSE Binned)
       ELSE DailyAverage
    /\ cpc' = "returned"
    /\ UNCHANGED <<Nfft, Nfft2, dt, maxlag, substack, substack_len, cc_len, corr, dataS_t>>
    /\ UNCHANGED <<stack_method, seg_peaks, ns_corr>>
    /\ UNCHANGED <<dtwVars, dvvVars, estVars, stackVars, segVars, smoothVars, callVars, strVars>>

NextCorr == Correlate

SpecCorr == InitCorr /\ [][NextCorr]_vars

-----------------------------------------------------------------------------
(* correlate_nonlinear_stack *)

\* the largest absolute sample np.max(np.abs(row)) of each row, given its
\* largest sample: zero for a row of zeros, else at least the largest sample
AbsChoices(amp) ==
    {ab \in [DOMAIN amp -> Peaks \cup {0}] :
        \A i \in DOMAIN amp :
            IF amp[i] = 0 THEN ab[i] = 0 ELSE ab[i] >= amp[i]}

\* row /= a: every sample over a; the row itself when a is 1, and 0/0 when the
\* row is zero
Normalised(row, a) ==
    [j \in DOMAIN row |->
        IF a = 1 THEN row[j]
        ELSE IF a = 0 THEN NaN
        ELSE [row |-> row[j].row, n |-> row[j].n, over |-> a]]

\* "ns_corr = s_corr" and the loop "ns_corr[iii] /= np.max(np.abs(ns_corr[iii]))":
\* both names are the same array, which holds the divided rows afterwards
NormalisedInPlace(rows, ab) == [i \in DOMAIN rows |-> Normalised(rows[i], ab[i])]

RECURSIVE ProductBut(_, _, _)
ProductBut(ab, i, k) ==
    IF k >= Size(ab) THEN 1
    ELSE (IF k = i THEN 1 ELSE ab[k]) * ProductBut(ab, i, k + 1)

\* np.max(s_corr, axis=1) of the divided rows, all in units of one over the
\* product of the divisors
NormalisedMax(amp, ab) == [i \in DOMAIN amp |-> amp[i] * ProductBut(ab, i, 0)]

\* tindx of the divided rows: a row of 0/0 makes the median not a number and
\* every comparison false
NlsGoodIndex(amp, ab) ==
    IF \E i \in DOMAIN ab : ab[i] = 0 THEN WhereIn({})
    ELSE GoodIndex(NormalisedMax(amp, ab))

\* the per-segment transforms of l.339-350
SegmentSpectra ==
    [i \in 0..(Size(corr) - 1) |-> Spectrum(corr[i], Nfft, Nfft2, TRUE)]
SegmentRows == [i \in 0..(Size(corr) - 1) |-> TimeRow(SegmentSpectra[i], i, Nfft)]

\* ns_corr[:, ind]
Companion(rows, ind) == [i \in DOMAIN rows |-> Take(rows[i], ind)]

\* substack and substack_len == cc_len: the outlier rule on the divided rows
NlsPerSegment(amp, ab) ==
    LET rows == NormalisedInPlace(SegmentRows, ab)
        tindx == NlsGoodIndex(amp, ab)
        ind == LagIndex(Nfft2, dt, maxlag)
    IN  /\ handed' = Handed(SegmentSpectra, 0)
        /\ corr_ampmax' = NormalisedMax(amp, ab)
        /\ s_corr' = TrimRows(rows, tindx, ind)
        /\ shape' = <<Size(tindx), Size(ind)>>
        /\ t_corr' = Take(dataS_t, tindx)
        /\ n_corr' = [r \in DOMAIN tindx |-> 1]
        /\ ns_corr' = Companion(rows, ind)
        /\ cpc' = "returned"

\* substack and substack_len != cc_len: s_corr is a new array, filled per bin
NlsBinned(ab) ==
    LET nwin == Size(corr)
        Ttotal == dataS_t[nwin - 1] - dataS_t[0]
        nstack == RoundDiv(Ttotal, substack_len)
        spectra == [k \in 0..(nstack - 1) |->
                       IF Size(itime(k)) = 0 THEN <<>>
                       ELSE Spectrum(RowsMean(corr, itime(k), Nfft2), Nfft, Nfft2, TRUE)]
        rows == [k \in 0..(nstack - 1) |-> TimeRow(spectra[k], k, Nfft)]
        counts == [k \in 0..(nstack - 1) |-> Size(itime(k))]
        stamps == [k \in 0..(nstack - 1) |->
                      IF Size(itime(k)) = 0 THEN 0 ELSE dataS_t[0] + k * substack_len]
        ind == LagIndex(Nfft2, dt, maxlag)
    IN  \E bamp \in PeakChoices(spectra) :
            LET tindx == GoodIndex(bamp)
            IN  /\ handed' = Handed(SegmentSpectra, 0) \o Handed(spectra, 0)
                /\ corr_ampmax' = bamp
                /\ s_corr' = TrimRows(rows, tindx, ind)
                /\ shape' = <<Size(tindx), Size(ind)>>
                /\ t_corr' = Take(stamps, tindx)
                /\ n_corr' = Take(counts, tindx)
                /\ ns_corr' = Companion(NormalisedInPlace(SegmentRows, ab), ind)
                /\ cpc' = "returned"

\* np.mean(s_corr[tindx], axis=0): the mean of no rows is not a number
TimeMean(rows, tindx, N) ==
    [j \in 0..(N - 1) |->
        IF Size(tindx) = 0 THEN NaN
        ELSE [mean_of |-> Take(rows, tindx), n |-> rows[0][j].n]]

\* no substack: the mean of the divided rows for 'linear'; for 'robust' s_corr
\* becomes the tuple robust_stack returns and "s_corr.ndim" raises; any other
\* method leaves the matrix of divided rows as it is
NlsDaily(amp, ab) ==
    LET nwin == Size(corr)
        rows == NormalisedInPlace(SegmentRows, ab)
        tindx == NlsGoodIndex(amp, ab)
        ind == LagIndex(Nfft2, dt, maxlag)
    IN  /\ handed' = Handed(SegmentSpectra, 0)
        /\ corr_ampmax' = NormalisedMax(amp, ab)
        /\ CASE stack_method = "linear" ->
                    /\ s_corr' = Take(TimeMean(rows, tindx, Nfft), ind)
                    /\ shape' = <<Size(ind)>>
                    /\ t_corr' = dataS_t[0]
                    /\ n_corr' = Size(tindx)
                    /\ ns_corr' = Companion(rows, ind)
                    /\ cpc' = "returned"
             [] stack_method = "robust" ->
                    /\ s_corr' = <<robust_stack(rows, Nfft), "w", "nstep">>
                    /\ shape' = <<>>
                    /\ t_corr' = dataS_t[0]
                    /\ n_corr' = nwin
                    /\ ns_corr' = <<>>
                    /\ cpc' = "raised"
             [] OTHER ->
                    /\ s_corr' = Companion(rows, ind)
                    /\ shape' = <<nwin, Size(ind)>>
                    /\ t_corr' = dataS_t
                    /\ n_corr' = [i \in 0..(nwin - 1) |-> 1]
                    /\ ns_corr' = Companion(rows, ind)
                    /\ cpc' = "returned"

\* the values of D['stack_method'] the model tries
NlsMethods == {"linear", "robust", "pws"}

\* stack_method is read only without substack
InitNls == CorrInputs /\ stack_method \in (IF substack THEN {"linear"} ELSE NlsMethods)

\* correlate_nonlinear_stack(fft1_smoothed_abs, fft2, D, Nfft, dataS_t), from
\* the cross-spectrum corr of l.335 on
CorrelateNonlinearStack ==
    /\ cpc = "call"
    /\ \E amp \in PeakChoices(SegmentSpectra) :
        \E ab \in AbsChoices(amp) :
            /\ seg_peaks' = [max |-> amp, absmax |-> ab]
            /\ IF substack
               THEN (IF substack_len = cc_len THEN NlsPerSegment(amp, ab)
                     ELSE NlsBinned(ab))
               ELSE NlsDaily(amp, ab)
    /\ UNCHANGED <<Nfft, Nfft2, dt, maxlag, substack, substack_len, cc_len, corr, dataS_t>>
    /\ UNCHANGED stack_method
    /\ UNCHANGED <<dtwVars, dvvVars, estVars, stackVars, segVars, smoothVars, callVars, strVars>>

NextNls == CorrelateNonlinearStack

SpecNls == InitNls /\ [][NextNls]_vars

-----------------------------------------------------------------------------
(* Segmenter. cc_len and step are whole seconds; inc_hours is a fraction of an
   hour, so that the analysis window is a few seconds long. *)

MaxWindow == 4      \* longest analysis window, in seconds
MaxCcLen == 3       \* longest segment, in seconds
MaxStep == 2        \* largest step, in seconds

\* the sampling rates of the traces
Rates == {Rat(1, 1), Rat(2, 1), Rat(3, 2)}

\* the start times of the traces, seconds since 1970
StartTimes == {0, 100}

\* inc_hours/24*86400
WindowSeconds(inc_hours) == RatMul(RatDiv(inc_hours, Int2Rat(24)), Int2Rat(86400))

\* the segment count with the last, partly covered step counted too
SegCountUp(inc_hours, seglen, stp) ==
    LET w == WindowSeconds(inc_hours)
    IN  ((w.num - seglen * w.den) \div (w.den * stp)) + 1

\* nseg = int(np.floor((inc_hours/24*86400 - cc_len)/step))
SegCount(inc_hours, seglen, stp) ==
    LET w == WindowSeconds(inc_hours)
    IN  (w.num - seglen * w.den) \div (w.den * stp)

\* sps = int(source[0].stats.sampling_rate)
Sps(rate) == rate.num \div rate.den

\* data.size < sps*inc_hours*3600
TooShort(data, sps, inc_hours) ==
    RatLess(Int2Rat(Size(data)), RatMul(Int2Rat(sps), RatMul(inc_hours, Int2Rat(3600))))

\* utils.mad(data), the median absolute deviation: not a number when a sample
\* is not a number
mad(data, defect) ==
    IF defect = "nan" \/ Size(data) = 0 THEN NaN
    ELSE LET m2 == Median2(data)
         IN  Rat(Median2([k \in DOMAIN data |-> Abs(2 * data[k] - m2)]), 4)

\* np.std(data): not a number when a sample is not a number, infinite when the
\* squared deviations overflow, otherwise the root of the variance
std(data, defect) ==
    IF defect = "nan" \/ Size(data) = 0 THEN NaN
    ELSE LET n == Size(data)
             v == n * Sum([k \in DOMAIN data |-> data[k] * data[k]])
                    - Sum(data) * Sum(data)
         IN  IF v = 0 THEN Rat(0, 1)
             ELSE IF defect = "huge" THEN Inf
             ELSE [sqrt |-> Rat(v, n * n)]

\* all_madS==0 or all_stdS==0 or np.isnan(all_madS) or np.isnan(all_stdS)
Degenerate(all_madS, all_stdS) ==
    \/ all_madS = Rat(0, 1)
    \/ all_stdS = Rat(0, 1)
    \/ all_madS = NaN
    \/ all_stdS = NaN

\* data[indx1:indx2]
Slice(data, indx1, indx2) ==
    [k \in 0..(Min2(indx2, Size(data)) - indx1 - 1) |-> data[indx1 + k]]

\* whether dataS[iseg] = data[indx1:indx2] can be assigned: the slice has the
\* row's length, or one sample, which numpy repeats along the row
Fits(slice, npts) == Size(slice) = npts \/ Size(slice) = 1

\* np.max(np.abs(dataS[iseg]))/all_stdS
AmplitudeRatio(slice, all_stdS) ==
    IF all_stdS = Inf THEN Rat(0, 1)
    ELSE [peak |-> MaxOf([k \in DOMAIN slice |-> Abs(slice[k])]), over |-> all_stdS]

\* a row of utils.taper(utils.detrend(utils.demean(dataS))): npts samples, every
\* one a function of the samples cut out for the row
Processed(slice, npts) ==
    [k \in 0..(npts - 1) |-> [taper_detrend_demean |-> slice, sample |-> k]]

\* the result with no statistics, no timestamps and no segments
EmptyCut == [trace_stdS |-> <<>>, dataS_t |-> <<>>, dataS |-> <<>>]

\* what cut_trace_make_statis(fc_para, source) returns
cut_trace_make_statis(para, src) ==
    LET nseg == SegCount(para.inc_hours, para.cc_len, para.step)
        sps == Sps(src.sampling_rate)
        data == src.data
        all_madS == mad(data, src.defect)
        all_stdS == std(data, src.defect)
        npts == para.cc_len * sps
        indx1(iseg) == iseg * para.step * sps
        seg(iseg) == Slice(data, indx1(iseg), indx1(iseg) + npts)
    IN  IF TooShort(data, sps, para.inc_hours) THEN EmptyCut
        ELSE IF Degenerate(all_madS, all_stdS) THEN EmptyCut
        ELSE IF nseg < 0 THEN [raises |-> "ValueError"]
        ELSE IF \E iseg \in 0..(nseg - 1) : ~Fits(seg(iseg), npts)
        THEN [raises |-> "ValueError"]
        ELSE [trace_stdS |-> [iseg \in 0..(nseg - 1) |-> AmplitudeRatio(seg(iseg), all_stdS)],
              dataS_t |-> [iseg \in 0..(nseg - 1) |-> src.starttime + para.step * iseg],
              dataS |-> [iseg \in 0..(nseg - 1) |-> Processed(seg(iseg), npts)]]

\* the samples of a trace: noise, a constant, or one spike on a zero line
Trace(kind, n) ==
    [k \in 0..(n - 1) |->
        CASE kind = "noise" -> <<1, -2, 0, 2>>[(k % 4) + 1]
          [] kind = "flat" -> 1
          [] kind = "spike" -> IF k = 0 THEN 3 ELSE 0]

\* the traces: sound ones, one with a sample that is not a number, and one
\* whose samples are so large that their squares overflow
TraceKinds ==
    {<<"noise", "none">>, <<"flat", "none">>, <<"spike", "none">>,
     <<"noise", "nan">>, <<"noise", "huge">>}

InitSeg ==
    /\ xpc = "call"
    /\ \E secs \in 1..MaxWindow, seglen \in 1..MaxCcLen, stp \in 1..MaxStep :
        fc_para = [inc_hours |-> Rat(secs, 3600), cc_len |-> seglen, step |-> stp]
    /\ \E rate \in Rates, t0 \in StartTimes, kind \in TraceKinds, extra \in -1..1 :
        LET full == RatMul(rate, RatMul(fc_para.inc_hours, Int2Rat(3600)))
            n == (full.num \div full.den) + extra
        IN  /\ n >= 0
            /\ source = [data |-> Trace(kind[1], n), defect |-> kind[2],
                         sampling_rate |-> rate, starttime |-> t0]
    /\ cut = <<>>
    /\ DtwIdle
    /\ tmin = 0
    /\ res = <<>>
    /\ EstIdle
    /\ CorrIdle
    /\ StackIdle
    /\ SmoothIdle
    /\ CallIdle
    /\ StretchIdle

\* a call of cut_trace_make_statis
CutTrace ==
    /\ xpc = "call"
    /\ cut' = cut_trace_make_statis(fc_para, source)
    /\ xpc' = IF "raises" \in DOMAIN cut' THEN "raised" ELSE "returned"
    /\ UNCHANGED <<fc_para, source>>
    /\ UNCHANGED <<dtwVars, dvvVars, estVars, corrVars, stackVars, smoothVars, callVars, strVars>>

NextSeg == CutTrace

SpecSeg == InitSeg /\ [][NextSeg]_vars

-----------------------------------------------------------------------------
(* Source-spectrum smoothing. The spectrum is one row of frequency bins whose
   values lie on the real or the imaginary axis, so that the amplitude of a bin
   is an exact fraction. *)

MaxBins == 3        \* most frequency bins
MaxSmooth == 1      \* largest smoothspect_N

\* the values of a frequency bin
BinValues == {CZero, Cplx(2, 0), Cplx(0, -1)}

\* np.abs(z) of a value on one of the axes
CAbs(z) ==
    RatAdd(IF z.re.num < 0 THEN RatNeg(z.re) ELSE z.re,
           IF z.im.num < 0 THEN RatNeg(z.im) ELSE z.im)

\* utils.moving_ave(A, N): the running mean of A over N bins either side
moving_ave(A, N) ==
    [k \in DOMAIN A |->
        LET win == WhereIn({j \in DOMAIN A : j >= k - N /\ j <= k + N})
        IN  RatDiv(RatSum(Take(A, win)), Int2Rat(Size(win)))]

\* x/t for floating-point numbers: division by zero gives a value that is not
\* a number or is infinite, and raises nothing
FloatOver(x, t) ==
    IF t.num # 0 THEN RatDiv(x, t)
    ELSE IF x.num = 0 THEN NaN ELSE Inf

\* z/t for a complex z and a real t
CDivReal(z, t) == [re |-> FloatOver(z.re, t), im |-> FloatOver(z.im, t)]

\* what smooth_source_spect(cc_para, fft1) returns
smooth_source_spect(para, spectrum) ==
    LET temp == moving_ave([k \in DOMAIN spectrum |-> CAbs(spectrum[k])],
                           para.smoothspect_N)
    IN  CASE para.cc_method = "deconv" ->
                [k \in DOMAIN spectrum |->
                    CDivReal(CConj(spectrum[k]), RatMul(temp[k], temp[k]))]
          [] para.cc_method = "coherency" ->
                [k \in DOMAIN spectrum |-> CDivReal(CConj(spectrum[k]), temp[k])]
          [] para.cc_method = "xcorr" ->
                [k \in DOMAIN spectrum |-> CConj(spectrum[k])]
          [] OTHER -> [raises |-> "ValueError"]

\* the correlation methods handed over: the three known ones and another name
CcMethods == {"deconv", "coherency", "xcorr", "raw"}

InitSmooth ==
    /\ mpc = "call"
    /\ \E method \in CcMethods, N \in 0..MaxSmooth :
        cc_para = [cc_method |-> method, smoothspect_N |-> N]
    /\ \E n \in 1..MaxBins : fft1 \in [0..(n - 1) -> BinValues]
    /\ sfft1 = <<>>
    /\ DtwIdle
    /\ tmin = 0
    /\ res = <<>>
    /\ EstIdle
    /\ CorrIdle
    /\ StackIdle
    /\ SegIdle
    /\ CallIdle
    /\ StretchIdle

\* a call of smooth_source_spect
SmoothSourceSpect ==
    /\ mpc = "call"
    /\ sfft1' = smooth_source_spect(cc_para, fft1)
    /\ mpc' = IF cc_para.cc_method \in {"deconv", "coherency", "xcorr"}
              THEN "returned" ELSE "raised"
    /\ UNCHANGED <<cc_para, fft1>>
    /\ UNCHANGED <<dtwVars, dvvVars, estVars, corrVars, stackVars, segVars, callVars, strVars>>

NextSmooth == SmoothSourceSpect

SpecSmooth == InitSmooth /\ [][NextSmooth]_vars

-----------------------------------------------------------------------------
(* A caller of the array functions. The caller holds the arrays under the names
   of the parameters they are passed as, and calls correlate,
   correlate_nonlinear_stack, stacking, stacking_rma, accumulateErrorFunction
   and backtrackDistanceFunction in any order. The body of each function is
   followed name by name: which object a name is bound to (a new array, or an
   object that already has a name) and which names are stored through. *)

MaxCalls == 3       \* most calls the caller makes

\* name = np.zeros(...), an arithmetic result, or an index-array selection: a
\* new object
New(nm) == [op |-> "new", name |-> nm, of |-> nm]

\* name = other, or a reshape or basic slice of it: the same object
Same(nm, other) == [op |-> "same", name |-> nm, of |-> other]

\* name[...] = value, name /= value, or name handed to a routine of another
\* module: a store into the object
Store(nm) == [op |-> "store", name |-> nm, of |-> nm]

\* l.204-210 with the product formed in place in the reshaped source spectrum
CorrelateHeadInPlace ==
    <<Same("corr", "fft1_smoothed_abs"), Store("corr"), New("temp"), Store("corr"),
      Same("corr", "corr")>>

\* l.204-210 and l.330-337: corr = np.zeros(...); corr = fft1.reshape(...) *
\* fft2.reshape(...); corr /= temp; corr = corr.reshape(nwin, Nfft2)
CorrelateHead ==
    <<New("corr"), New("corr"), New("temp"), Store("corr"), Same("corr", "corr")>>

\* l.233-236, 263-266 and 277-283: the outlier rule and the trim to maxlag
CorrelateTail ==
    <<New("ampmax"), New("tindx"), New("s_corr"), New("t_corr"), New("n_corr"),
      New("t"), New("ind"), New("s_corr")>>

\* l.241-260 and 372-391: the loop over the bins
BinLoop ==
    <<New("ampmax"), New("s_corr"), New("n_corr"), New("t_corr"), New("crap"),
      New("itime"), Store("crap"), Store("crap"), Store("crap"), Store("crap"),
      Store("s_corr"), Store("n_corr"), Store("t_corr")>>

\* l.214-225 and 340-350: one time-domain row per segment
SegmentLoop ==
    <<New("s_corr"), New("ampmax"), New("n_corr"), Same("t_corr", "dataS_t"),
      New("crap"), Store("n_corr"), Store("crap"), Store("crap"), Store("crap"),
      Store("crap"), Store("s_corr")>>

\* the statements of a function on one path through it
Body(fn, path) ==
    CASE fn = "correlate" ->
            CorrelateHead \o
            (CASE path = "per_segment" -> SegmentLoop
               [] path = "binned" -> BinLoop
               [] path = "daily" ->
                    <<New("ampmax"), New("tindx"), New("s_corr"), New("t_corr"),
                      New("crap"), Store("crap"), Store("crap"), Store("crap"),
                      New("s_corr")>>) \o
            CorrelateTail
      [] fn = "correlate_nonlinear_stack" ->
            CorrelateHead \o SegmentLoop \o
            <<Same("ns_corr", "s_corr"), Store("ns_corr")>> \o
            (CASE path = "per_segment" -> <<>>
               [] path = "binned" -> BinLoop
               [] path = "linear" ->
                    <<New("ampmax"), New("tindx"), New("s_corr"), New("t_corr")>>
               [] path = "robust" ->
                    <<Store("s_corr"), New("s_corr"), New("t_corr")>>) \o
            CorrelateTail \o <<New("ns_corr")>>
      [] fn = "stacking" ->
            <<New("ampmax"), New("tindx"), New("cc_array"), New("cc_time"),
              New("cc_ngood"), New("allstacks1"), New("allstacks2"),
              New("allstacks3"), Store("cc_array"), New("allstacks1"),
              New("nstacks")>>
      [] fn = "stacking_rma" ->
            <<New("ampmax"), New("tindx"), New("cc_array"), New("cc_time"),
              New("cc_ngood")>> \o
            (IF path = "rebinned"
             THEN <<New("ncc_array"), New("ncc_time"), New("ncc_ngood"), New("sindx"),
                    Store("ncc_array"), Store("ncc_time"), Store("ncc_ngood"),
                    New("ncc_array"), New("ncc_time"), New("ncc_ngood")>>
             ELSE <<>>) \o
            <<New("allstacks1"), New("allstacks2"), New("allstacks3"),
              New("allstacks4"), Store("cc_array"), New("allstacks1"),
              New("nstacks")>> \o
            (IF path = "rebinned"
             THEN <<Same("cc_array", "ncc_array"), Same("cc_time", "ncc_time"),
                    Same("cc_ngood", "ncc_ngood")>>
             ELSE <<>>)
      [] fn = "accumulateErrorFunction" -> <<New("d"), Store("d")>>
      [] fn = "backtrackDistanceFunction" -> <<New("stbar"), Store("stbar")>>

\* the arrays a function is passed
Params(fn) ==
    CASE fn \in {"correlate", "correlate_nonlinear_stack"} ->
            {"fft1_smoothed_abs", "fft2", "dataS_t"}
      [] fn \in {"stacking", "stacking_rma"} -> {"cc_array", "cc_time", "cc_ngood"}
      [] fn = "accumulateErrorFunction" -> {"err"}
      [] fn = "backtrackDistanceFunction" -> {"d", "err"}

\* the functions and the paths through each
Calls ==
    ({"correlate"} \X {"per_segment", "binned", "daily"})
    \cup ({"correlate_nonlinear_stack"} \X {"per_segment", "binned", "linear", "robust"})
    \cup ({"stacking"} \X {"linear", "all"})
    \cup ({"stacking_rma"} \X {"plain", "rebinned"})
    \cup ({"accumulateErrorFunction", "backtrackDistanceFunction"}
            \X {"forward", "backward"})

\* the object a name stands for: a parameter's array, or an array made inside
\* the function
ObjectOf(env, nm) == IF nm \in DOMAIN env THEN env[nm] ELSE "inside"

\* the parameters' arrays that the statements store into, env giving the object
\* of every name bound so far
RECURSIVE StoredInto(_, _)
StoredInto(stmts, env) ==
    IF stmts = <<>> THEN {}
    ELSE LET st == Head(stmts)
         IN  CASE st.op = "new" ->
                    StoredInto(Tail(stmts), (st.name :> "inside") @@ env)
               [] st.op = "same" ->
                    StoredInto(Tail(stmts), (st.name :> ObjectOf(env, st.of)) @@ env)
               [] st.op = "store" ->
                    ({ObjectOf(env, st.name)} \ {"inside"})
                        \cup StoredInto(Tail(stmts), env)

\* an array that differs from the array a
Overwritten(a) == [k \in 0..Size(a) |-> 0]

\* the arrays of the caller after a call: an array that was stored into no
\* longer holds what it held
AfterCall(h, fn, path) ==
    LET hit == StoredInto(Body(fn, path), [q \in Params(fn) |-> q])
    IN  [o \in DOMAIN h |-> IF o \in hit THEN Overwritten(h[o]) ELSE h[o]]

\* accumulateErrorFunction(dir, err, nSample, lag, b): the sample loop from
\* sample i on
RECURSIVE AccumulateFrom(_, _, _, _, _, _, _)
AccumulateFrom(dd, e, i, dr, n, lg, bb) ==
    LET nd == AccumSample(dd, e, i, dr, n, lg, bb)
    IN  IF i = iEnd(dr, n) THEN nd
        ELSE AccumulateFrom(nd, e, i + iInc(dr), dr, n, lg, bb)

\* what a call returns.  stacking, stacking_rma and accumulateErrorFunction are
\* computed; the other three return a value fixed by the arrays passed and the
\* path, for no statement of noise.py reads or assigns a module-level name
Returned(h, fn, path) ==
    CASE fn = "stacking" -> stacking(h.cc_array, h.cc_time, h.cc_ngood, path)
      [] fn = "stacking_rma" ->
            stacking_rma(h.cc_array, h.cc_time, h.cc_ngood, "linear",
                IF path = "plain" THEN NoRma
                ELSE [rma_substack |-> 2, rma_step |-> 1, start_date |-> 0,
                      end_date |-> 4])
      [] fn = "accumulateErrorFunction" ->
            LET dr == IF path = "forward" THEN 1 ELSE -1
                n == Size(h.err)
                lg == (Size(h.err[0]) - 1) \div 2
            IN  AccumulateFrom(Zeros2(n, 2 * lg + 1), h.err, iBegin(dr, n), dr, n, lg, 1)
      [] OTHER -> [fn |-> fn, path |-> path, of |-> [q \in Params(fn) |-> h[q]]]

\* the arrays the caller starts with: CCF rows, an error surface with its
\* distance surface, and two spectra with the timestamps of their segments
InitCalls ==
    /\ \E r0 \in {Arr(<<1, -1>>), Arr(<<100, -1>>)}, a1 \in [0..1 -> Amps] :
        LET e == computeErrorFunction(a1, [i \in 0..1 |-> 1], 2, 1)
        IN  heap = [cc_array |-> Arr(<<r0, Arr(<<2, 1>>)>>),
                    cc_time |-> Arr(<<0, 1>>),
                    cc_ngood |-> Arr(<<1, 2>>),
                    err |-> e,
                    d |-> AccumulateFrom(Zeros2(2, 3), e, 0, 1, 2, 1, 1),
                    fft1_smoothed_abs |-> Arr(<<CorrRow("ramp", 2)>>),
                    fft2 |-> Arr(<<CorrRow("phase", 2)>>),
                    dataS_t |-> Arr(<<0>>)]
    /\ log = <<>>
    /\ DtwIdle
    /\ tmin = 0
    /\ res = <<>>
    /\ EstIdle
    /\ CorrIdle
    /\ StackIdle
    /\ SegIdle
    /\ SmoothIdle
    /\ StretchIdle

\* the caller calls one of the functions with the arrays it holds
Call ==
    /\ Len(log) < MaxCalls
    /\ \E c \in Calls :
        /\ heap' = AfterCall(heap, c[1], c[2])
        /\ log' = Append(log,
                    [fn |-> c[1], path |-> c[2],
                     before |-> [q \in Params(c[1]) |-> heap[q]],
                     after |-> [q \in Params(c[1]) |-> heap'[q]],
                     result |-> Returned(heap, c[1], c[2])])
    /\ UNCHANGED <<dtwVars, dvvVars, estVars, corrVars, stackVars, segVars, smoothVars, strVars>>

NextCalls == Call

SpecCalls == InitCalls /\ [][NextCalls]_vars

-----------------------------------------------------------------------------
(* Stretching. The correlation coefficients are not computed: the position of
   the best coarse trial and of the best refined trial are inputs. *)

MaxTrial == 8       \* most trial coefficients
FinePoints == 100   \* length of the refinement grid

\* np.linspace(start, stop, num)
linspace(start, stop, num) ==
    [i \in 0..(num - 1) |->
        IF num = 1 THEN start
        ELSE RatAdd(start, RatDiv(RatMul(Int2Rat(i), RatSub(stop, start)),
                                  Int2Rat(num - 1)))]

\* Eps = 1 + np.linspace(-|dv_range|, |dv_range|, nbtrial)
Eps(range, n) ==
    LET grid == linspace(RatNeg(RatAbs(range)), RatAbs(range), n)
    IN  [i \in 0..(n - 1) |-> RatAdd(Int2Rat(1), grid[i])]

\* imax after "if imax >= len(Eps)-2: imax = imax - 2" and
\* "if imax <= 2: imax = imax + 2"
RefineIndex(i0, n) ==
    LET lowered == IF i0 >= n - 2 THEN i0 - 2 ELSE i0
    IN  IF lowered <= 2 THEN lowered + 2 ELSE lowered

\* whether a[k] is an element of an array of n elements; a negative k counts
\* from the end
IndexOk(k, n) == k >= -n /\ k < n
Index(a, k) == IF k < 0 THEN a[Size(a) + k] ELSE a[k]

\* stretching(ref, cur, dv_range, nbtrial, para) from the search of the best
\* coarse trial on; fine is np.argmax(ncof)
stretching(range, n, i0, fine) ==
    LET grid == Eps(range, n)
        imax == RefineIndex(i0, n)
    IN  IF ~IndexOk(imax - 2, n) \/ ~IndexOk(imax + 2, n)
        THEN [raises |-> "IndexError", imax |-> imax]
        ELSE LET dtfiner == linspace(Index(grid, imax - 2), Index(grid, imax + 2),
                                    FinePoints)
             IN  [raises |-> "none", imax |-> imax,
                  first |-> dtfiner[0], last |-> dtfiner[FinePoints - 1],
                  dv |-> RatSub(RatMul(Int2Rat(100), dtfiner[fine]), Int2Rat(100))]

\* dv_range, in hundredths
Ranges == {1, 3}

\* positions of the best refined trial
FinePicks == {0, 49, 99}

InitStretch ==
    /\ zpc = "call"
    /\ dv_range \in {Rat(r, 100) : r \in Ranges}
    /\ nbtrial \in 1..MaxTrial
    /\ cof_imax \in 0..(nbtrial - 1)
    /\ stretched = <<>>
    /\ DtwIdle
    /\ tmin = 0
    /\ res = <<>>
    /\ EstIdle
    /\ CorrIdle
    /\ StackIdle
    /\ SegIdle
    /\ SmoothIdle
    /\ CallIdle

Stretching ==
    /\ zpc = "call"
    /\ \E fine \in FinePicks :
        stretched' = stretching(dv_range, nbtrial, cof_imax, fine)
    /\ zpc' = IF stretched'.raises = "none" THEN "returned" ELSE "raised"
    /\ UNCHANGED <<dv_range, nbtrial, cof_imax>>
    /\ UNCHANGED <<dtwVars, dvvVars, estVars, corrVars, stackVars, segVars, smoothVars, callVars>>

NextStretch == Stretching

SpecStretch == InitStretch /\ [][NextStretch]_vars

-----------------------------------------------------------------------------
(* Claims about the DTW core *)

\* the samples from the starting end up to and including sample i, in the
\* accumulation direction
Accumulated(i) == IF dir > 0 THEN 0..i ELSE i..(nSample - 1)

RECURSIVE SumOver(_, _)
SumOver(f, S) ==
    IF S = {} THEN 0
    ELSE LET x == CHOOSE y \in S : TRUE IN f[x] + SumOver(f, S \ {x})

\* the cumulative sum of the pointwise squared differences err[k][0]
CumulativeError(i) == SumOver([k \in 0..(nSample - 1) |-> err[k][0]], Accumulated(i))

\* C1: with lag = 0, for every strain limit b >= 1 and both directions, the
\* accumulated distance at each sample is the cumulative sum, in the accumulation
\* direction, of the pointwise squared differences
C1_CumulativeSum ==
    (pc = "accumulated" /\ lag = 0) =>
        \A i \in 0..(nSample - 1) : d[i][0] = CumulativeError(i)

\* the sample nearest to i whose shifted index, by sh, is inside the traces
NearestInRange(i, sh) ==
    CHOOSE j \in 0..(nSample - 1) :
        /\ j + sh \in 0..(nSample - 1)
        /\ \A k \in 0..(nSample - 1) :
                k + sh \in 0..(nSample - 1) => Abs(k - i) >= Abs(j - i)

\* C19: computeErrorFunction fails with an error for every call with
\* lag >= nSample; for every call with 0 <= lag < nSample it returns an
\* nSample x (2*lag+1) surface of squared differences in which every entry
\* whose shifted index falls outside the traces equals the nearest in-range
\* entry of the same lag column
C19_ErrorSurface ==
    pc # "start" =>
        IF lag >= nSample
        THEN pc = "raised" /\ err = <<>>
        ELSE /\ DOMAIN err = 0..(nSample - 1)
             /\ \A i \in 0..(nSample - 1) :
                /\ DOMAIN err[i] = 0..(2 * lag)
                /\ \A t \in 0..(2 * lag) :
                    IF i + t - lag \in 0..(nSample - 1)
                    THEN err[i][t] = (u1[i] - u0[i + t - lag]) * (u1[i] - u0[i + t - lag])
                    ELSE err[i][t] = err[NearestInRange(i, t - lag)][t]

\* C19 witness: a surface with a corner entry that was filled with a non-zero
\* error from inside the traces
C19_Witness ==
    /\ pc = "accumulate"
    /\ lag >= 1
    /\ nSample >= 3
    /\ err[0][0] = 1
    /\ err[nSample - 1][2 * lag] = 1

\* backtrackDistanceFunction has returned: every sample of stbar is final
Backtracked == pc = "backtrack" /\ ii = iEnd(-dir, nSample)

\* the lag changes between sample i and sample i + 1
LagChange(i) == stbar[i] # stbar[i + 1]

\* C21: for every strain limit b >= 1 and both backtracking directions, the
\* lags returned by backtrackDistanceFunction change by at most 1 between
\* adjacent samples, and any b consecutive sample-to-sample steps contain at
\* most one lag change
C21_StrainLimit ==
    Backtracked =>
        /\ \A i \in 0..(nSample - 2) : Abs(stbar[i] - stbar[i + 1]) <= 1
        /\ \A i \in 0..(nSample - 1 - b) :
                Cardinality({k \in i..(i + b - 1) : LagChange(k)}) <= 1

\* the three candidate distances backtrackDistanceFunction compares at sample i
\* and lag index l: the neighbour with the lag unchanged, and the neighbours one
\* lag down and one lag up (the lag index kept inside 0..2*lag)
Candidates(i, l) ==
    LET inc == iInc(-dir)
        ji == Max2(0, Min2(nSample - 1, i + inc))
        jb == Max2(0, Min2(nSample - 1, i + inc * b))
        down == Max2(l - 1, 0)
        up == Min2(l + 1, 2 * lag)
        ks == IF ji # jb THEN BacktrackStride(ji, jb, inc) ELSE <<>>
    IN  [straight |-> d[ji][l],
         down |-> d[jb][down] + SumErr(err, ks, down),
         up |-> d[jb][up] + SumErr(err, ks, up)]

\* C26: at every step of backtrackDistanceFunction, when the distance of the
\* unchanged-lag neighbour equals the minimum of the three candidate distances
\* (ties with a lag-changing candidate included) the lag stays unchanged; the
\* lag moves only when a lag-changing candidate is strictly smaller than the
\* unchanged-lag candidate
C26_TiesKeepLag ==
    [][(pc = "backtrack" /\ pc' = "backtrack") =>
          LET c == Candidates(ii, ll)
          IN  /\ (c.straight <= c.down /\ c.straight <= c.up) => ll' = ll
              /\ ll' < ll => (ll' = ll - 1 /\ c.down < c.straight)
              /\ ll' > ll => (ll' = ll + 1 /\ c.up < c.straight)]_vars

\* C26 witness: the first step of the backtracking found the unchanged-lag
\* candidate tied with a lag-changing one at the minimum, and kept the lag
C26_Witness ==
    /\ pc = "backtrack"
    /\ nSample >= 2
    /\ ii = iBegin(-dir, nSample) + iInc(-dir)
    /\ LET i0 == iBegin(-dir, nSample)
           l0 == ArgMin(d[i0])
           c == Candidates(i0, l0)
       IN  /\ l0 + 1 <= 2 * lag
           /\ c.straight = c.up
           /\ c.straight <= c.down
           /\ ll = l0
           /\ stbar[ii] = stbar[i0]

\* the lag paths, as lag indices 0..2*lag, that change by at most 1 between
\* adjacent samples
Paths ==
    {p \in [0..(nSample - 1) -> 0..(2 * lag)] :
        \A i \in 0..(nSample - 2) : Abs(p[i + 1] - p[i]) <= 1}

\* the error summed along a path
PathCost(p) == SumOver([i \in 0..(nSample - 1) |-> err[i][p[i]]], 0..(nSample - 1))

MinOfSet(S) == CHOOSE x \in S : \A y \in S : x <= y

\* the smallest summed error of any path
BestCost == MinOfSet({PathCost(p) : p \in Paths})

\* the returned shifts as a path of lag indices
ReturnedPath == [i \in 0..(nSample - 1) |-> stbar[i] + lag]

\* C27: for strain limit b = 1 and either direction, the minimum over lags of
\* the accumulated distance at the last accumulated sample equals the minimum,
\* over all lag paths within [-lag, +lag] that change by at most 1 between
\* adjacent samples, of the error summed along the path; and the path returned
\* by backtrackDistanceFunction run in the opposite direction attains it
C27_AccumulatedMinimumIsBestPath ==
    (Backtracked /\ b = 1) =>
        /\ MinOfSet(Values(d[iEnd(dir, nSample)])) = BestCost
        /\ ReturnedPath \in Paths
        /\ PathCost(ReturnedPath) = BestCost

\* C27 witness: the best path has to change its lag, every path of constant lag
\* costs more, and the returned path is such a best path
C27_Witness ==
    /\ Backtracked
    /\ b = 1
    /\ \A p \in Paths : (\A i \in DOMAIN p : p[i] = p[0]) => PathCost(p) > BestCost
    /\ \E i \in 0..(nSample - 2) : stbar[i] # stbar[i + 1]
    /\ PathCost(ReturnedPath) = BestCost

\* the samples from x to y, whichever is larger
Between(x, y) == Min2(x, y)..Max2(x, y)

\* the samples one pass of the loop of backtrackDistanceFunction reads in d and
\* err, from sample i
SamplesRead(i) ==
    LET inc == iInc(-dir)
        ji == Max2(0, Min2(nSample - 1, i + inc))
        jb == Max2(0, Min2(nSample - 1, i + inc * b))
        ks == IF ji # jb THEN BacktrackStride(ji, jb, inc) ELSE <<>>
    IN  {ji, jb} \cup {ks[k] : k \in DOMAIN ks}

\* the lags assigned so far are inside [lmin, lmin + nLag - 1], lmin = -lag
BacktrackInRange ==
    pc = "backtrack" =>
        /\ ii \in 0..(nSample - 1)
        /\ ll \in 0..(2 * lag)
        /\ DOMAIN stbar = 0..(nSample - 1)
        /\ \A i \in Between(iBegin(-dir, nSample), ii) : stbar[i] = ll - lag \/ i # ii
        /\ \A i \in Between(iBegin(-dir, nSample), ii) : stbar[i] \in (-lag)..lag

\* one pass of the loop reads samples of the surface only, moves ii nearer to
\* iEnd without passing it (so that the loop ends after at most nSample - 1
\* passes) and assigns the lag to every sample it moves over
BacktrackPass ==
    (pc = "backtrack" /\ pc' = "backtrack" /\ ii' # ii) =>
        /\ SamplesRead(ii) \subseteq 0..(nSample - 1)
        /\ ii' \in Between(ii, iEnd(-dir, nSample))
        /\ \A i \in Between(ii, ii') : i # ii => stbar'[i] = ll' - lag
        /\ \A i \in 0..(nSample - 1) : i \notin Between(ii, ii') => stbar'[i] = stbar[i]

\* C28: for every distance surface with nSample >= 1, every strain limit b >= 1
\* and both directions, backtrackDistanceFunction terminates, never indexes a
\* sample outside [0, nSample-1], assigns a lag to every sample, and every
\* assigned lag lies in [lmin, lmin + nLag - 1], that is in [-maxLag, +maxLag]
\* when called from dtw_dvv
C28_BacktrackTerminatesInRange ==
    /\ []BacktrackInRange
    /\ [][BacktrackPass]_vars

\* C28 witness: a backtracking over the longest trace with b > 1 has ended, the
\* lag having changed on the way and having been held
C28_Witness ==
    /\ Backtracked
    /\ nSample = MaxSample
    /\ b > 1
    /\ \E i \in 0..(nSample - 3) : stbar[i] # stbar[i + 1] /\ stbar[i + 1] = stbar[i + 2]

-----------------------------------------------------------------------------
(* Claims about the dv/v estimators *)

\* dtw_dvv got as far as its regression
DtwAtRegression == pc \in {"returned", "raised"} /\ stbar # <<>>

\* the windowed or wavelet estimator got as far as its final regression
EstAtRegression ==
    \/ est \in {"mwcs", "wcc"} /\ epc \in {"returned", "raised"}
    \/ est = "wxs" /\ epc \in {"returned", "raised"}
           /\ ~BandProblem(band) /\ freq_indin(band) # {}

\* the number of points the estimator has for its final regression
PointsHanded ==
    CASE est = "mwcs" -> Size(MwcsIndx(delta_mcoh, delta_err, delta_t))
      [] est = "wcc" -> count
      [] est = "wxs" -> nrec
      [] OTHER -> Size(DtwIndx(tmin, nSample))

ReturnedZero(p) == p = "returned" /\ res.dvv = Int2Rat(0) /\ res.err2 = Int2Rat(0)

\* C7: every estimator that ends in a linear regression (dtw_dvv, mwcs_dvv,
\* WCC_dvv, wxs_dvv in single-band mode) returns dv/v = 0 and error = 0 without
\* raising whenever the points it has for that regression are 2 or fewer
C7_FewPointsReturnZero ==
    /\ (DtwAtRegression /\ PointsHanded <= 2) => ReturnedZero(pc)
    /\ (EstAtRegression /\ PointsHanded <= 2) => ReturnedZero(epc)

\* the smallest frequency of the wavelet transform
MinFreq == CHOOSE f \in Freqs : \A g \in Freqs : f <= g

\* the largest frequency of the wavelet transform
MaxFreq == CHOOSE f \in Freqs : \A g \in Freqs : g <= f

\* C17: wxs_dvv fails with an error, and returns no measurement, whenever fmax
\* is above the largest or fmin is below the smallest frequency of the wavelet
\* transform
C17_BandOutsideTransformRaises ==
    (/\ est = "wxs"
     /\ epc \in {"returned", "raised"}
     /\ (band[2] > MaxFreq \/ band[1] < MinFreq)) => epc = "raised"

\* the absolute value of a fraction

\* the windows with mean coherence > 0.65, error < 0.1 and |delay| < 0.1 s
WithinLimits ==
    WhereIn({i \in DOMAIN delta_t :
                /\ RatLess(Rat(65, 100), delta_mcoh[i])
                /\ RatLess(delta_err[i], Rat(1, 10))
                /\ RatLess(RatAbs(delta_t[i]), Rat(1, 10))})

\* C18: in mwcs_dvv a window's delay estimate enters the final regression if and
\* only if its mean coherence is > 0.65, its error is < 0.1 and the absolute
\* value of its delay is < 0.1 s: the result is the regression over exactly
\* these windows when there are more than two of them, and zero otherwise
C18_RegressionOverWindowsWithinLimits ==
    (est = "mwcs" /\ epc = "returned") =>
        res = IF Size(WithinLimits) > 2
              THEN Negated(linear_regression(
                        Take(time_axis, WithinLimits), Take(delta_t, WithinLimits),
                        [k \in DOMAIN WithinLimits |-> InvOrOne(delta_err[WithinLimits[k]])]))
              ELSE ZeroEstimate

\* the best coarse trial factor lies in the interval the refinement covers
BestInRefinement ==
    LET best == Eps(dv_range, nbtrial)[cof_imax]
    IN  /\ RatLeq(stretched.first, best)
        /\ RatLeq(best, stretched.last)

\* C23: in stretching(), for every trial count nbtrial >= 5 and every position
\* of the best coarse trial, the two grid positions that bound the refinement
\* (two neighbours below and two above the adjusted best index) are valid
\* indices of the trial grid, and the refinement interval contains the best
\* coarse trial factor
C23_RefinementWithinGrid ==
    (zpc \in {"returned", "raised"} /\ nbtrial >= 5) =>
        /\ stretched.imax - 2 \in 0..(nbtrial - 1)
        /\ stretched.imax + 2 \in 0..(nbtrial - 1)
        /\ zpc = "returned"
        /\ BestInRefinement

\* the moving window in samples, and the call of mwcs_dvv or WCC_dvv with a
\* window of 1..N whole samples and a positive slide step
WindowSamples == IntSamples(mwl2)
WindowedCall ==
    /\ est \in {"mwcs", "wcc"}
    /\ mwl2 = 2 * WindowSamples
    /\ WindowSamples \in 1..nrec
    /\ slide2 > 0

\* floor((N - W)/S) + 1 for the slide step S in samples
ExpectedWindows == (2 * (nrec - WindowSamples)) \div slide2 + 1

\* C30: in mwcs_dvv and WCC_dvv, for every record of N samples, every window of
\* W samples with 1 <= W <= N and every positive slide step, the sliding-window
\* loop terminates after exactly floor((N - W)/S) + 1 windows, every window
\* covers only samples inside the record, and window i is reported at centre
\* time tmin + window_length/2 + i*slide_step
C30_WindowLoop ==
    WindowedCall =>
        /\ count <= ExpectedWindows
        /\ epc # "loop" => count = ExpectedWindows
        /\ (epc = "loop" /\ maxind <= nrec) => (minind >= 0 /\ minind < maxind)
        /\ \A i \in DOMAIN time_axis :
                time_axis[i] = Rat(4 * tmin + mwl2 + 2 * i * slide2, 4)

-----------------------------------------------------------------------------
(* Claims about the correlator *)

\* the number of samples of the lag axis of the result
LagAxisLength == shape[Len(shape)]

\* C2: for every dt > 0, maxlag >= 0, transform length and result shape, the lag
\* axis of the result of correlate has exactly 2*floor(maxlag/dt)+1 samples
C2_LagAxisLength ==
    cpc = "returned" => LagAxisLength = 2 * (maxlag \div dt) + 1

\* C2, amended: the lag axis has 2*min(floor(maxlag/dt), Nfft2-1)+1 samples
C2_LagAxisLengthWithinTransform ==
    cpc = "returned" => LagAxisLength = 2 * Min2(maxlag \div dt, Nfft2 - 1) + 1

\* a 2-D result whose lag axis is cut short by the transform, and one that is not
C2_Witness ==
    /\ cpc = "returned"
    /\ Len(shape) = 2
    /\ shape[1] = 2
    /\ maxlag \div dt > Nfft2 - 1
    /\ LagAxisLength = 2 * Nfft2 - 1

\* the lag of sample n of an inverse transform of length Nfft, in samples
TrueLag(n) == IF 2 * n <= Nfft THEN n ELSE n - Nfft

\* the rows of the result
ReturnedRows == IF Len(shape) = 1 THEN {s_corr} ELSE Values(s_corr)

\* C3: every retained sample has a true lag with |lag| <= maxlag, the retained
\* lags are symmetric about zero and the zero-lag sample is the centre sample
C3_RetainedLagsSymmetric ==
    cpc = "returned" =>
        \A row \in ReturnedRows :
            LET lags == [c \in DOMAIN row |-> TrueLag(row[c].n)]
            IN  /\ \A c \in DOMAIN row : Abs(lags[c]) * dt <= maxlag
                /\ \A c \in DOMAIN row : \E c2 \in DOMAIN row : lags[c2] = -lags[c]
                /\ lags[(Size(row) - 1) \div 2] = 0

\* C8: in every branch of correlate the zero-frequency bin of each spectrum handed
\* to the inverse transform is exactly zero
C8_ZeroFrequencyBinZero ==
    cpc = "returned" => \A k \in DOMAIN handed : handed[k][0] = CZero

\* correlate has returned from the binned sub-stacking
BinnedReturned == cpc = "returned" /\ substack /\ substack_len # cc_len

\* the bin whose averaged spectrum was transformed into row r of the result
BinOf(r) == s_corr[r][0].row

\* the segments whose start lies in [t0 + k*substack_len, t0 + (k+1)*substack_len)
StartsIn(k) ==
    {i \in DOMAIN dataS_t :
        /\ dataS_t[i] >= dataS_t[0] + k * substack_len
        /\ dataS_t[i] < dataS_t[0] + (k + 1) * substack_len}

PassedMask == GoodSpectrumIndex(corr_ampmax)

\* C25: in the no-sub-stack branch of correlate() the returned count n_corr
\* equals the number of segments that were included in the average, that is
\* the number of segments that passed the amplitude outlier mask
C25_CountIsIncludedSegments ==
    (cpc = "returned" /\ ~substack /\ seg_peaks = <<>>) =>
        n_corr = Size(PassedMask)

\* the number of bins of the binned sub-stacking and the segments of each bin,
\* before the outlier rule
BinCount == RoundDiv(dataS_t[Size(dataS_t) - 1] - dataS_t[0], substack_len)
SegmentsOfBin == [k \in 0..(BinCount - 1) |-> Values(itime(k))]

\* C29: in binned sub-stacking of correlate() every input segment is assigned
\* to exactly one sub-stack bin: before outlier removal the per-bin counts sum
\* to the number of input segments, for every set of segment timestamps and
\* every substack_len
C29_EverySegmentInOneBin ==
    BinnedReturned =>
        /\ \A i \in DOMAIN dataS_t :
                Cardinality({k \in DOMAIN SegmentsOfBin : i \in SegmentsOfBin[k]}) = 1
        /\ Sum([k \in DOMAIN SegmentsOfBin |-> Cardinality(SegmentsOfBin[k])])
                = Size(dataS_t)

\* what correlate returns for the arguments of the call when np.max finds the
\* largest samples amp in the rows its outlier rule reads
CorrelateReturns(amp) ==
    LET tindx == GoodIndex(amp)
        ind == LagIndex(Nfft2, dt, maxlag)
        nstack == RoundDiv(dataS_t[Size(corr) - 1] - dataS_t[0], substack_len)
        binrows == [k \in 0..(nstack - 1) |->
                       TimeRow(IF Size(itime(k)) = 0 THEN <<>> ELSE <<CZero>>, k, Nfft)]
    IN  IF substack_len = cc_len
        THEN [s |-> TrimRows(SegmentRows, tindx, ind),
              t |-> Take(dataS_t, tindx),
              n |-> [r \in DOMAIN tindx |-> 1]]
        ELSE [s |-> TrimRows(binrows, tindx, ind),
              t |-> Take([k \in 0..(nstack - 1) |-> dataS_t[0] + k * substack_len], tindx),
              n |-> Take([k \in 0..(nstack - 1) |-> Size(itime(k))], tindx)]

\* correlate with sub-stacking returns what CorrelateReturns says
CorrelateReturnsAgrees ==
    (cpc = "returned" /\ substack /\ ns_corr = <<>>) =>
        /\ s_corr = CorrelateReturns(corr_ampmax).s
        /\ t_corr = CorrelateReturns(corr_ampmax).t
        /\ n_corr = CorrelateReturns(corr_ampmax).n

\* the largest samples of the rows the outlier rule of correlate would read:
\* of the segments' rows, or of the bins' rows
TrueMax == IF substack_len = cc_len THEN seg_peaks.max ELSE corr_ampmax

\* C24: with sub-stacking enabled, for equal inputs the first three results of
\* correlate_nonlinear_stack (CCF rows, timestamps, counts) equal the results
\* of correlate, and the companion matrix is a separate value: every companion
\* row is its segment's CCF over its largest absolute amplitude while the
\* primary rows keep their amplitudes
C24_NonlinearEqualsCorrelate ==
    (cpc = "returned" /\ substack /\ seg_peaks # <<>>) =>
        /\ s_corr = CorrelateReturns(TrueMax).s
        /\ t_corr = CorrelateReturns(TrueMax).t
        /\ n_corr = CorrelateReturns(TrueMax).n
        /\ \A i \in DOMAIN ns_corr :
                /\ seg_peaks.absmax[i] > 0
                /\ ns_corr[i] = Take(Normalised(SegmentRows[i], seg_peaks.absmax[i]),
                                     LagIndex(Nfft2, dt, maxlag))

-----------------------------------------------------------------------------
(* Claims about the stacker *)

\* the peak absolute amplitude of each row
PeakAbs(rows) == [i \in DOMAIN rows |-> MaxOf([j \in DOMAIN rows[i] |-> Abs(rows[i][j])])]

\* the input rows the call passed on: those whose timestamp was returned
PassedOn == {i \in DOMAIN cc_array : cc_time[i] \in Values(ret.cc_time)}

\* C4: a row is passed on to the combination step if and only if its peak
\* absolute amplitude is greater than 0 and does not exceed 20 times the median
\* of the peak absolute amplitudes of its batch
C4_OutlierRule ==
    spc = "returned" =>
        LET peak == PeakAbs(cc_array)
        IN  \A i \in DOMAIN cc_array :
                i \in PassedOn <=>
                    (peak[i] > 0 /\ 2 * peak[i] <= 20 * Median2(peak))

\* the largest samples of the rows other than row r
OtherMax(r) ==
    Take(RowMax(cc_array), WhereIn(DOMAIN cc_array \ {r}))

\* row r's largest sample is 100 times the median of the largest samples of
\* the other rows
HundredTimesOthers(r) ==
    /\ Size(cc_array) >= 2
    /\ 2 * RowMax(cc_array)[r] = 100 * Median2(OtherMax(r))

\* the elementwise arithmetic mean of the rows in S (S not empty)
IsMeanOf(stack, S) ==
    /\ DOMAIN stack = DOMAIN cc_array[0]
    /\ \A j \in DOMAIN stack :
        /\ DOMAIN stack[j] = {"num", "den"}
        /\ stack[j].num * Cardinality(S)
            = stack[j].den * SumOver([i \in DOMAIN cc_array |-> cc_array[i][j]], S)

\* a returned stack holds nothing of row r: it is empty or all zero, or the
\* mean of passed-on rows other than r, or an estimate made from the returned
\* rows, none of which is r
NoPartOf(stack, r) ==
    /\ r \notin PassedOn
    /\ \/ stack = <<>>
       \/ stack = ZeroStack(Size(cc_array[0]))
       \/ IsMeanOf(stack, PassedOn)
       \/ stack \in {pws(ret.cc_array, Size(cc_array[0])), robust_stack(ret.cc_array, Size(cc_array[0]))}

ExcludedFromAll(r) ==
    /\ r \notin PassedOn
    /\ NoPartOf(ret.allstacks1, r)
    /\ NoPartOf(ret.allstacks2, r)
    /\ NoPartOf(ret.allstacks3, r)

BatchMedianNearOthers(r) ==
    Median2(RowMax(cc_array)) <= 5 * Median2(OtherMax(r))

AsStack(row) == [j \in DOMAIN row |-> Rat(row[j], 1)]

\* the rows whose largest sample is above 0 and below 20 times the batch median
Survivors ==
    LET m == RowMax(cc_array)
    IN  {i \in DOMAIN cc_array : m[i] > 0 /\ 2 * m[i] < 20 * Median2(m)}

MethodEstimate(method, rows) ==
    CASE method \in {"linear", "all"} -> MeanRows(rows, Size(cc_array[0]))
      [] method = "pws" -> pws(rows, Size(cc_array[0]))
      [] method = "robust" -> robust_stack(rows, Size(cc_array[0]))
      [] method = "nroot" -> nroot_stack(rows, Size(cc_array[0]))
      [] method = "acf" -> adaptive_filter(rows, Size(cc_array[0]))
      [] method = "selective" -> selective_stack(rows, Size(cc_array[0]))

\* C9: for every advertised method, when a row survives, the primary stack is
\* that method's estimate of the surviving rows
C9_EveryMethodStacks ==
    (spc = "returned" /\ smethod \in StackMethods /\ PassedOn # {}) =>
        ret.allstacks1 = MethodEstimate(smethod, ret.cc_array)

\* C10: a call with a method name outside the recognised set signals an error
\* and returns no stack
C10_UnknownMethodRaises ==
    smethod \notin StackMethods => ~(spc = "returned" /\ ret.allstacks1 # <<>>)


\* the call of stacking() or stacking_rma() has returned a result
StackReturned ==
    /\ spc \in {"returned", "returned_rma"}
    /\ "nstacks" \in DOMAIN ret

\* C11: the contributing count nstacks returned by stacking() and by
\* stacking_rma(), with or without re-binning, equals the sum of the per-row
\* contribution counts cc_ngood returned in the same result
C11_CountIsSumOfReturnedCounts ==
    StackReturned => ret.nstacks = Sum(ret.cc_ngood)

\* np.mean(rows, axis=0) of a non-empty matrix of fractions
RatMeanRows(rows) ==
    [j \in DOMAIN rows[0] |->
        RatDiv(RatSum([i \in DOMAIN rows |-> rows[i][j]]), Int2Rat(Size(rows)))]

\* a matrix of whole samples as a matrix of fractions
Fractions(rows) == [i \in DOMAIN rows |-> AsStack(rows[i])]

\* the stack is what the method ('linear' or 'pws') makes of the rows
StackedFrom(stack, method, rows) ==
    IF method = "linear"
    THEN stack = RatMeanRows(rows)
    ELSE \A j \in DOMAIN stack :
            /\ stack[j].estimator = method
            /\ Fractions(stack[j].rows) = rows

\* stacking_rma() has returned from a call with re-binning enabled
Rebinned ==
    /\ spc = "returned_rma"
    /\ rma.rma_substack # 0
    /\ "allstacks4" \in DOMAIN ret

\* C12: in stacking_rma() with re-binning enabled the final stack of the chosen
\* method ('linear' and 'pws' here) is computed from the re-binned rows that
\* are returned, one row per non-empty time bin
C12_StackOfRebinnedRows ==
    (Rebinned /\ smethod \in {"linear", "pws"} /\ Size(ret.cc_array) > 0) =>
        StackedFrom(ret.allstacks1, smethod, ret.cc_array)

\* the stacks a result holds
StacksOf(result) ==
    {result[f] : f \in DOMAIN result \cap
                    {"allstacks1", "allstacks2", "allstacks3", "allstacks4"}}

\* C13: stacking() and stacking_rma() return empty rows, empty timestamps,
\* empty per-row counts, empty stacks and a contributing count of 0, without
\* raising, whenever no input row survives the outlier rule
C13_EmptyResultWhenNoSurvivor ==
    (spc \in {"returned", "returned_rma"} /\ Survivors = {}) =>
        /\ "raises" \notin DOMAIN ret
        /\ ret.cc_array = <<>>
        /\ ret.cc_time = <<>>
        /\ ret.cc_ngood = <<>>
        /\ "allstacks1" \in DOMAIN ret
        /\ StacksOf(ret) = {<<>>}
        /\ ret.nstacks = 0

\* C13 witness: stacking_rma() has returned from a batch of two rows, one with
\* a positive peak, of which none survives because the median peak is not
\* positive
C13_Witness ==
    /\ spc = "returned_rma"
    /\ Size(cc_array) = 2
    /\ \E i \in DOMAIN cc_array : MaxOf(cc_array[i]) > 0
    /\ Survivors = {}
    /\ ret.nstacks = 0

-----------------------------------------------------------------------------
(* Claims about the segmenter *)

\* the analysis window inc_hours*3600, in seconds
IncSeconds == (fc_para.inc_hours.num * 3600) \div fc_para.inc_hours.den

\* the whole number of samples per second the segmenter works with
WholeSps == source.sampling_rate.num \div source.sampling_rate.den

\* the call returned segments: the waveform covers the analysis window and its
\* statistics are sound
CutSucceeded ==
    /\ xpc = "returned"
    /\ Size(source.data) >= WholeSps * IncSeconds
    /\ ~Degenerate(mad(source.data, source.defect), std(source.data, source.defect))

\* the samples cut out for segment i
CutOut(i) == cut.dataS[i][0].taper_detrend_demean

\* C14: on success cut_trace_make_statis returns exactly
\* nseg = floor((inc_hours*3600 - cc_len)/step) segments of cc_len*sps samples
\* each; segment i is made of the waveform slice that starts at sample
\* i*step*sps, its start instant is starttime + i*step, and the slice lies
\* inside the waveform
C14_SegmentsAreSlices ==
    CutSucceeded =>
        LET nseg == (IncSeconds - fc_para.cc_len) \div fc_para.step
            npts == fc_para.cc_len * WholeSps
        IN  /\ DOMAIN cut.dataS = 0..(nseg - 1)
            /\ DOMAIN cut.dataS_t = 0..(nseg - 1)
            /\ DOMAIN cut.trace_stdS = 0..(nseg - 1)
            /\ \A i \in 0..(nseg - 1) :
                /\ DOMAIN cut.dataS[i] = 0..(npts - 1)
                /\ i * fc_para.step * WholeSps + npts <= Size(source.data)
                /\ CutOut(i) = [k \in 0..(npts - 1) |->
                                    source.data[i * fc_para.step * WholeSps + k]]
                /\ cut.dataS_t[i] = source.starttime + i * fc_para.step

\* C14 witness: two overlapping segments of four samples each were cut from a
\* trace of two samples per second
C14_Witness ==
    /\ CutSucceeded
    /\ Size(cut.dataS) = 2
    /\ Size(cut.dataS[1]) = 4
    /\ fc_para.step < fc_para.cc_len
    /\ WholeSps = 2

\* a statistic that is zero, not a number or infinite
ZeroOrNonFinite(stat) == stat = Rat(0, 1) \/ stat = NaN \/ stat = Inf

\* C15: cut_trace_make_statis returns the empty result, without raising,
\* whenever the waveform has fewer samples than the analysis window, or the
\* global median absolute deviation or the global standard deviation is zero,
\* not a number or infinite
C15_EmptyWhenDegenerate ==
    (/\ xpc \in {"returned", "raised"}
     /\ \/ Size(source.data) < WholeSps * IncSeconds
        \/ ZeroOrNonFinite(mad(source.data, source.defect))
        \/ ZeroOrNonFinite(std(source.data, source.defect)))
        => (xpc = "returned" /\ cut = EmptyCut)

-----------------------------------------------------------------------------
(* Claims about the source-spectrum smoothing *)

\* the moving-average amplitude of the source spectrum is zero at some bin
ZeroSmoothedBin ==
    \E k \in DOMAIN fft1 :
        moving_ave([j \in DOMAIN fft1 |-> CAbs(fft1[j])], cc_para.smoothspect_N)[k]
            = Rat(0, 1)

\* C16: smooth_source_spect with method 'deconv' or 'coherency' fails with an
\* error, and returns no spectrum, whenever the moving-average amplitude of the
\* source spectrum is zero at any frequency bin
C16_ZeroSmoothedSpectrumRaises ==
    (/\ mpc # "call"
     /\ cc_para.cc_method \in {"deconv", "coherency"}
     /\ ZeroSmoothedBin) => mpc = "raised"

-----------------------------------------------------------------------------
(* Claims about the caller of the array functions *)

====
